---- MODULE Spec2Model ----
(***************************************************************************)
(* hubr: the release protocol (spec.release, push) against the remote      *)
(* release-hosting service, as a state machine over the remote calls the   *)
(* client methods of src/main.go make.  Every remote call is one atomic    *)
(* step; the local code between two calls belongs to the step of the call  *)
(* that follows it.                                                        *)
(***************************************************************************)
EXTENDS Integers, Sequences, FiniteSets, TLC

(* ------------------------------ bounds --------------------------------- *)

\* invocations (push / release command lines) started in one behaviour
MaxRuns == 2
\* releases of other tags listed before the identity's release at Init
MaxNewer == 2
\* releases other invocations (another tag) create while the model runs
MaxForeign == 1
\* invocations started in one behaviour of SpecSame: all of one identity and sha
MaxSame == 3

(* ------------------------- program constants --------------------------- *)

\* const workers: the default of the -w flag
workers == 3
\* one page of Repositories.ListReleases (ListOptions{Page: 0}, no PerPage):
\* the service's page size is 30; the model scales it to 2
PerPage == 2

Procs == {"p1", "p2"}

(* ------------------------------ values --------------------------------- *)

\* a version string: text before the match, the numeric components, text after
Ver(pre, nums, suf) == [pre |-> pre, nums |-> nums, suf |-> suf]
\* version(""): what versioner.at returns when the version file is absent
NoVersion == Ver("", <<>>, "")
V1 == Ver("v", <<1, 0, 0>>, "")
V2 == Ver("v", <<2, 0, 0>>, "")

\* version.String
String(v) == IF v = NoVersion THEN Ver("v", <<0, 0, 0>>, "") ELSE v

\* git object ids on the remote: commits, annotated tag objects
NoRef == [type |-> "none", n |-> 0]
Commit(n) == [type |-> "commit", n |-> n]
TagObj(k) == [type |-> "tag", n |-> k]

\* commits known to the remote (Repositories.GetCommit succeeds)
RemoteCommits == {1, 2}

\* local files: os.Open / f.Stat; -1 is a file that cannot be opened
FileSize(src) ==
  CASE src = <<"a", "x">> -> 1
    [] src = <<"b", "x">> -> 2
    [] src = <<"y">> -> 1
    [] OTHER -> -1

\* filepath.Base
Base(src) == <<src[Len(src)]>>

Min(a, b) == IF a < b THEN a ELSE b

(* ------------------------- the local repository ------------------------ *)

\* the version file's first line in a commit's tree, or the file's absence
File(v) == [present |-> TRUE, line |-> v]
NoFile == [present |-> FALSE, line |-> NoVersion]

\* a local history: HEAD, each commit's parents, each commit's version file
Hist(h, ps, fs) == [head |-> h, parents |-> ps, file |-> fs]

\* HEAD 1 changes the version of its only parent 2
HistRelease ==
  Hist(1, <<(<<2>>), <<>>, <<>>>>, <<File(V2), File(V1), NoFile>>)
\* HEAD 1 carries the version of its only parent 2
HistSame ==
  Hist(1, <<(<<2>>), <<>>, <<>>>>, <<File(V2), File(V2), NoFile>>)
\* HEAD 1 merges 2 and 3 and changes the version
HistMerge ==
  Hist(1, <<(<<2, 3>>), <<>>, <<>>>>, <<File(V2), File(V1), File(V1)>>)
\* HEAD 2 is a root commit
HistRoot ==
  Hist(2, <<(<<2>>), <<>>, <<>>>>, <<File(V2), File(V2), NoFile>>)
\* HEAD 3 is a root commit that was never pushed to the remote
HistUnpushed ==
  Hist(3, <<(<<2>>), <<>>, <<>>>>, <<File(V2), File(V1), File(V2)>>)

\* parseVersion: the line must hold a match of versionRe
parseVersion(line) ==
  IF line.nums = <<>> THEN [err |-> TRUE, v |-> NoVersion]
  ELSE [err |-> FALSE, v |-> line]

\* versioner.at: the version file's first line at commit c
at(h, c) ==
  IF ~h.file[c].present THEN [err |-> FALSE, v |-> NoVersion]
  ELSE parseVersion(h.file[c].line)

isRelease_firstParent(h) ==
  LET n == Len(h.parents[h.head]) IN
  IF n = 0 THEN [err |-> FALSE, ok |-> TRUE]
  ELSE LET hv == at(h, h.head)
           pv == at(h, h.parents[h.head][1])
       IN IF hv.err \/ pv.err THEN [err |-> TRUE, ok |-> FALSE]
          ELSE [err |-> FALSE, ok |-> hv.v # pv.v]

\* versioner.isRelease
isRelease(h) ==
  LET n == Len(h.parents[h.head]) IN
  IF n = 0 THEN [err |-> FALSE, ok |-> TRUE]
  ELSE IF n # 1 THEN [err |-> FALSE, ok |-> FALSE]
  ELSE LET hv == at(h, h.head)
           pv == at(h, h.parents[h.head][1])
       IN IF hv.err \/ pv.err THEN [err |-> TRUE, ok |-> FALSE]
          ELSE [err |-> FALSE, ok |-> hv.v # pv.v]

(* ---------------------------- command lines ---------------------------- *)

\* the tag of the identity every modelled invocation releases, and the tag
\* of the other releases of the repository
TagT == String(V2)
TagO == String(V1)
Tags == {TagT, TagO}

CmdLine(cmd, h, sha, draft, keepd, ups, w) ==
  [cmd |-> cmd, hist |-> h, sha |-> sha, draft |-> draft, keepd |-> keepd,
   uploads |-> ups, wkrs |-> w]

PushLines ==
  { CmdLine("push", HistRelease, 0, FALSE, FALSE, <<(<<"a", "x">>), (<<"y">>)>>, workers),
    CmdLine("push", HistSame, 0, FALSE, FALSE, <<(<<"a", "x">>)>>, workers),
    CmdLine("push", HistMerge, 0, FALSE, FALSE, <<>>, workers),
    CmdLine("push", HistRoot, 0, FALSE, FALSE, <<(<<"a", "x">>), (<<"b", "x">>)>>, workers),
    CmdLine("push", HistUnpushed, 0, TRUE, TRUE, <<(<<"z">>)>>, 1) }

ReleaseLines ==
  { CmdLine("release", HistRelease, 1, TRUE, TRUE,
            <<(<<"a", "x">>), (<<"b", "x">>)>>, 1) }

CommandLines == PushLines \cup ReleaseLines

\* push of sha 1 under the tag TagT
SameLines == {c \in PushLines : c.hist = HistRelease}

\* spec: the parameters of one release
MkSpec(tag, sha, c) ==
  [tag |-> tag, sha |-> sha, draft |-> c.draft, keepd |-> c.keepd,
   uploads |-> c.uploads, wkrs |-> c.wkrs]
NoCmd == CmdLine("", HistRelease, 0, FALSE, FALSE, <<>>, 0)
NoSpec == MkSpec(TagT, 0, NoCmd)

\* release passes "release " + s.name to CreateTag: never the blank message
TagMsg(s) == "release"

(* ------------------------------ state ---------------------------------- *)

VARIABLES
  refs,      \* remote: tag -> the object its ref points at, or NoRef
  tagObjs,   \* remote: annotated tag object k points at commit tagObjs[k]
  releases,  \* remote: the releases, newest first
  foreign,   \* number of releases created by invocations for another tag
  pc,        \* per invocation: the remote call it is about to make
  cl,        \* per invocation: its command line
  spec,      \* per invocation: its spec
  loc,       \* per invocation: locals of CreateTag / DraftRelease / PublishRelease
  pool,      \* per invocation: the upper's queue, workers and errors
  res,       \* per invocation: what release() returned
  reqs,      \* per invocation: the creating / changing requests it issued
  mode,      \* per invocation: how it follows the previous invocation
  last,      \* the invocation that ended last
  step2,     \* shas for which the tag step and the draft-release step completed
  runs,      \* invocations started
  plan,      \* the command lines invocations are started with, and how many
  call       \* a call of a local function: its arguments and what it returned

vars == <<refs, tagObjs, releases, foreign, pc, cl, spec, loc, pool, res, reqs,
          mode, last, step2, runs, plan, call>>

\* a release as the service lists it
Release(id, tag, draft, assets) ==
  [id |-> id, tag |-> tag, draft |-> draft, assets |-> assets]
NoRelease == Release(0, TagO, FALSE, <<>>)
Asset(name, size) == [name |-> name, size |-> size]

\* ref: what GetRef returned; obj: the object the new ref will point at;
\* r: the release DraftRelease returned; e: the release PublishRelease edits;
\* tagged: CreateTag returned nil; seen: the releases of the tag that existed
\* on the remote, on any page, when GetDraft listed them (oldest last)
\* client: NewClient was called; pub: what PublishRelease made of GetDraft
NoLoc == [client |-> FALSE, ref |-> NoRef, obj |-> NoRef, r |-> NoRelease,
          e |-> NoRelease, tagged |-> FALSE, seen |-> <<>>, pub |-> ""]
NoPool == [outs |-> <<>>]
\* an upload job's outcome: the upload requests it issued and the error it returned
NoOut == [ran |-> FALSE, sent |-> 0, err |-> ""]
Out(sent, err) == [ran |-> TRUE, sent |-> sent, err |-> err]
NoRes == [ret |-> "none", step |-> "", kind |-> ""]
NoReqs == [tagobj |-> 0, ref |-> 0, rel |-> 0, upl |-> 0, edit |-> 0]
NoLast == [how |-> "none", cl |-> NoCmd, solo |-> FALSE]
NoMode == [follows |-> "fresh", solo |-> FALSE, after2 |-> FALSE]
NoCall == [fn |-> ""]

Running(p) == pc[p] \notin {"idle", "done", "crashed"}

(* --------------------------- the remote service ------------------------ *)

\* Git.GetTag: the annotated tag object with this id; a commit's id is not one
IsTagObj(sha) == sha.type = "tag"
\* the commit a ref's object resolves to
Resolve(sha) == IF IsTagObj(sha) THEN Commit(tagObjs[sha.n]) ELSE sha

\* client.ListReleases: one page of the repository's releases
ListReleases == SubSeq(releases, 1, Min(PerPage, Len(releases)))

\* the position in rs of the first release with the tag, 0 if there is none
FirstWithTag(rs, tag) ==
  IF \E i \in 1..Len(rs) : rs[i].tag = tag
  THEN CHOOSE i \in 1..Len(rs) :
         /\ rs[i].tag = tag
         /\ \A j \in 1..(i - 1) : rs[j].tag # tag
  ELSE 0

\* client.GetDraft: the first listed release with a matching tag
GetDraft(tag) ==
  LET rs == ListReleases
      i == FirstWithTag(rs, tag)
  IN IF i = 0 THEN [found |-> FALSE, r |-> NoRelease]
     ELSE [found |-> TRUE, r |-> rs[i]]

\* the position in as of the first asset with the name, 0 if there is none
FirstNamed(as, name) ==
  IF \E i \in 1..Len(as) : as[i].name = name
  THEN CHOOSE i \in 1..Len(as) :
         /\ as[i].name = name
         /\ \A j \in 1..(i - 1) : as[j].name # name
  ELSE 0

\* the remote release with this id
RemoteRelease(id) == releases[CHOOSE i \in 1..Len(releases) : releases[i].id = id]

(* ------------------------------- Init ---------------------------------- *)

InitRefs ==
  { <<NoRef, <<>>>>, <<Commit(1), <<>>>>, <<Commit(2), <<>>>>,
    <<TagObj(1), <<1>>>>, <<TagObj(1), <<2>>>> }

InitOwn ==
  { <<Release(0, TagT, FALSE, <<Asset(<<"x">>, 1)>>)>>,
    <<Release(0, TagT, TRUE, <<Asset(<<"x">>, 2)>>)>> }

\* k releases of the other tag, newest first, then the identity's own
InitReleases(k, own) ==
  LET n == k + Len(own) IN
  [i \in 1..n |->
     IF i <= k THEN Release(n - i + 1, TagO, FALSE, <<>>)
     ELSE [own[i - k] EXCEPT !.id = n - i + 1]]

\* the remote before the first invocation: any state of the tag ref with no
\* release of the tag, or the tag as an earlier run left it with its release
\* on the first page, at the end of it, or beyond it
InitRemotes ==
  { <<rf, InitReleases(k, <<>>)>> : rf \in InitRefs, k \in {0} }
  \cup { <<(<<TagObj(1), <<1>>>>), InitReleases(k, own)>> :
           k \in 0..MaxNewer, own \in InitOwn }

InitState ==
  /\ \E rm \in InitRemotes :
       /\ refs = [t \in Tags |-> IF t = TagT THEN rm[1][1] ELSE NoRef]
       /\ tagObjs = rm[1][2]
       /\ releases = rm[2]
  /\ foreign = 0
  /\ pc = [p \in Procs |-> "idle"]
  /\ cl = [p \in Procs |-> NoCmd]
  /\ spec = [p \in Procs |-> NoSpec]
  /\ loc = [p \in Procs |-> NoLoc]
  /\ pool = [p \in Procs |-> NoPool]
  /\ res = [p \in Procs |-> NoRes]
  /\ reqs = [p \in Procs |-> NoReqs]
  /\ mode = [p \in Procs |-> NoMode]
  /\ last = NoLast
  /\ step2 = {}
  /\ runs = 0

Init ==
  /\ InitState
  /\ plan = [lines |-> CommandLines, max |-> MaxRuns]
  /\ call = NoCall

\* the identity has no release yet
InitSame ==
  /\ InitState /\ releases = <<>>
  /\ plan = [lines |-> SameLines, max |-> MaxSame]
  /\ call = NoCall

(* ------------------------- control of an invocation -------------------- *)

\* release() returns: nil, or the error of the step that failed; cut: a
\* transport error ended the run
Return(p, ret, step, kind) ==
  LET outs == pool[p].outs
      cut == \/ kind = "transport"
             \/ step = "uploads" /\ \E j \in 1..Len(outs) : outs[j].err = "transport"
  IN
  /\ pc' = [pc EXCEPT ![p] = "done"]
  /\ res' = [res EXCEPT ![p] = [ret |-> ret, step |-> step, kind |-> kind]]
  /\ last' = [how |-> IF ret = "nil" THEN "ok" ELSE IF cut THEN "cut" ELSE "err",
              cl |-> cl[p], solo |-> mode[p].solo]
  /\ UNCHANGED <<cl, spec, pool, mode, runs, plan, call, foreign>>

Goto(p, label) ==
  /\ pc' = [pc EXCEPT ![p] = label]
  /\ UNCHANGED <<res, last, cl, spec, pool, mode, runs, plan, call, foreign>>

\* a release() that goes on to the publish step whatever s.draft says
AfterUploads_publishing(p) == Goto(p, "PublishRelease")

\* after the draft-release step: the uploads, then the publish step
AfterUploads(p) ==
  IF spec[p].draft THEN Return(p, "nil", "", "") ELSE Goto(p, "PublishRelease")

AfterDraft(p) ==
  IF Len(spec[p].uploads) > 0 THEN Goto(p, "upload") ELSE AfterUploads(p)

\* the releases of the tag among all the remote's releases
WithTag(tag) == SelectSeq(releases, LAMBDA r : r.tag = tag)

\* one more request of a kind issued by p
Issued(p, kind) ==
  reqs' = [reqs EXCEPT ![p] =
             CASE kind = "tagobj" -> [@ EXCEPT !.tagobj = @ + 1]
               [] kind = "ref" -> [@ EXCEPT !.ref = @ + 1]
               [] kind = "rel" -> [@ EXCEPT !.rel = @ + 1]
               [] kind = "upl" -> [@ EXCEPT !.upl = @ + 1]
               [] kind = "edit" -> [@ EXCEPT !.edit = @ + 1]]

(* --------------------------- push and release -------------------------- *)

\* a push that does not ask whether HEAD is a release commit
push_anyCommit(c) ==
  LET h == c.hist
      v == at(h, h.head)
  IN IF v.err THEN [call |-> FALSE, ret |-> "err", spec |-> NoSpec]
     ELSE [call |-> TRUE, ret |-> "", spec |-> MkSpec(String(v.v), h.head, c)]

\* push up to the call of spec.release; release (subcommand) builds its spec
\* from its flags.  The result is the spec, or what the subcommand returns
\* without calling spec.release.
push(c) ==
  LET h == c.hist
      ir == isRelease(h)
      v == at(h, h.head)
  IN IF ir.err THEN [call |-> FALSE, ret |-> "err", spec |-> NoSpec]
     ELSE IF ~ir.ok THEN [call |-> FALSE, ret |-> "nil", spec |-> NoSpec]
     ELSE IF v.err THEN [call |-> FALSE, ret |-> "err", spec |-> NoSpec]
     ELSE [call |-> TRUE, ret |-> "", spec |-> MkSpec(String(v.v), h.head, c)]

release(c) == [call |-> TRUE, ret |-> "", spec |-> MkSpec(TagT, c.sha, c)]

Subcmd(c) == IF c.cmd = "push" THEN push(c) ELSE release(c)

\* how the invocation p starts with command line c follows the last one:
\* "again" after a run that returned nil, "retry" after a run that a crash or
\* a transport error cut short after a remote call
Follows(p, c) ==
  IF /\ last.cl = c
     /\ last.solo
     /\ \A q \in Procs \ {p} : ~Running(q)
  THEN CASE last.how = "ok" -> "again"
         [] last.how = "cut" -> "retry"
         [] OTHER -> "fresh"
  ELSE "fresh"

\* a subcommand starts; spec.release creates its client (NewClient)
Start(p, c) ==
  LET sc == Subcmd(c)
      solo == \A q \in Procs \ {p} : ~Running(q)
  IN
  /\ ~Running(p)
  /\ p = "p2" => Running("p1")
  /\ c \in plan.lines
  /\ runs < plan.max
  /\ runs' = runs + 1
  /\ cl' = [cl EXCEPT ![p] = c]
  /\ spec' = [spec EXCEPT ![p] = sc.spec]
  /\ loc' = [loc EXCEPT ![p] = [NoLoc EXCEPT !.client = sc.call]]
  /\ reqs' = [reqs EXCEPT ![p] = NoReqs]
  /\ pool' = [pool EXCEPT ![p] =
                [NoPool EXCEPT !.outs = [j \in 1..Len(sc.spec.uploads) |-> NoOut]]]
  /\ mode' = [q \in Procs |->
                IF q = p
                THEN [follows |-> IF sc.call THEN Follows(p, c) ELSE "fresh",
                      solo |-> solo,
                      after2 |-> sc.call /\ sc.spec.sha \in step2]
                ELSE [mode[q] EXCEPT !.follows = "fresh", !.solo = FALSE]]
  /\ IF ~sc.call
     THEN /\ pc' = [pc EXCEPT ![p] = "done"]
          /\ res' = [res EXCEPT ![p] = [ret |-> sc.ret, step |-> "push", kind |-> "nop"]]
     ELSE /\ pc' = [pc EXCEPT ![p] = "GetRef"]
          /\ res' = [res EXCEPT ![p] = NoRes]
  /\ last' = NoLast
  /\ UNCHANGED <<refs, tagObjs, releases, foreign, step2, plan, call>>

\* the process dies (or loses the connection for good) between two calls
Crash(p) ==
  /\ Running(p)
  /\ pc' = [pc EXCEPT ![p] = "crashed"]
  /\ last' = [how |-> IF pc[p] = "GetRef" THEN "none" ELSE "cut",
              cl |-> cl[p], solo |-> mode[p].solo]
  /\ loc' = [loc EXCEPT ![p] = NoLoc]
  /\ pool' = [pool EXCEPT ![p] = NoPool]
  /\ reqs' = [reqs EXCEPT ![p] = NoReqs]
  /\ res' = [res EXCEPT ![p] = NoRes]
  /\ UNCHANGED <<refs, tagObjs, releases, foreign, cl, spec, mode, step2, runs, plan, call>>

(* ------------------------------ CreateTag ------------------------------ *)

\* CreateTag once GetRef found the ref: where it goes next
CreateTag_onRef(sha, msg, ref) ==
  IF Commit(sha) = ref THEN "nil"
  ELSE IF msg = "" THEN "conflict"
  ELSE "GetTag"

\* CreateTag once GetTag answered for the ref's object
CreateTag_onTag(sha, ref) ==
  IF IsTagObj(ref) /\ Commit(sha) # Resolve(ref) THEN "conflict" ELSE "nil"

CreateTag_GetRef(p, net) ==
  LET s == spec[p]
      ref == refs[s.tag]
      to == IF ref # NoRef THEN CreateTag_onRef(s.sha, TagMsg(s), ref) ELSE "GetCommit"
  IN
  /\ pc[p] = "GetRef"
  /\ IF ~net THEN /\ Return(p, "err", "tag", "transport")
                  /\ UNCHANGED loc
     ELSE /\ loc' = [loc EXCEPT ![p].ref = ref, ![p].tagged = (to = "nil")]
          /\ CASE to = "nil" -> Goto(p, "DraftRelease")
               [] to = "conflict" -> Return(p, "err", "tag", "conflict")
               [] OTHER -> Goto(p, to)
  /\ UNCHANGED <<refs, tagObjs, releases, reqs, step2>>

CreateTag_GetTag(p, net) ==
  LET s == spec[p]
      to == CreateTag_onTag(s.sha, loc[p].ref)
  IN
  /\ pc[p] = "GetTag"
  /\ IF ~net THEN /\ Return(p, "err", "tag", "transport")
                  /\ UNCHANGED loc
     ELSE /\ loc' = [loc EXCEPT ![p].tagged = (to = "nil")]
          /\ IF to = "nil" THEN Goto(p, "DraftRelease")
             ELSE Return(p, "err", "tag", "conflict")
  /\ UNCHANGED <<refs, tagObjs, releases, reqs, step2>>

CreateTag_GetCommit(p, net) ==
  LET s == spec[p] IN
  /\ pc[p] = "GetCommit"
  /\ IF ~net THEN /\ Return(p, "err", "tag", "transport")
                  /\ UNCHANGED loc
     ELSE IF s.sha \notin RemoteCommits
     THEN /\ Return(p, "err", "tag", "sha not found")
          /\ UNCHANGED loc
     ELSE /\ loc' = [loc EXCEPT ![p].obj = Commit(s.sha)]
          /\ Goto(p, IF TagMsg(s) # "" THEN "CreateTag" ELSE "CreateRef")
  /\ UNCHANGED <<refs, tagObjs, releases, reqs, step2>>

\* Git.CreateTag: the annotated tag object
CreateTag_CreateTag(p, net) ==
  LET s == spec[p] IN
  /\ pc[p] = "CreateTag"
  /\ Issued(p, "tagobj")
  /\ IF ~net THEN /\ Return(p, "err", "tag", "transport")
                  /\ UNCHANGED <<loc, tagObjs>>
     ELSE /\ tagObjs' = Append(tagObjs, s.sha)
          /\ loc' = [loc EXCEPT ![p].obj = TagObj(Len(tagObjs) + 1)]
          /\ Goto(p, "CreateRef")
  /\ UNCHANGED <<refs, releases, step2>>

\* a Git.CreateRef that the service accepts for a ref that exists
CreateTag_CreateRef_overwriting(p, net) ==
  LET s == spec[p] IN
  /\ pc[p] = "CreateRef"
  /\ Issued(p, "ref")
  /\ IF ~net THEN /\ Return(p, "err", "tag", "transport")
                  /\ UNCHANGED <<loc, refs>>
     ELSE /\ refs' = [refs EXCEPT ![s.tag] = loc[p].obj]
          /\ loc' = [loc EXCEPT ![p].tagged = TRUE]
          /\ Goto(p, "DraftRelease")
  /\ UNCHANGED <<tagObjs, releases, step2>>

\* Git.CreateRef: the service refuses a ref that exists
CreateTag_CreateRef(p, net) ==
  LET s == spec[p] IN
  /\ pc[p] = "CreateRef"
  /\ Issued(p, "ref")
  /\ IF ~net THEN /\ Return(p, "err", "tag", "transport")
                  /\ UNCHANGED <<loc, refs>>
     ELSE IF refs[s.tag] # NoRef
     THEN /\ Return(p, "err", "tag", "ref exists")
          /\ UNCHANGED <<loc, refs>>
     ELSE /\ refs' = [refs EXCEPT ![s.tag] = loc[p].obj]
          /\ loc' = [loc EXCEPT ![p].tagged = TRUE]
          /\ Goto(p, "DraftRelease")
  /\ UNCHANGED <<tagObjs, releases, step2>>

(* ----------------------------- DraftRelease ---------------------------- *)

\* a DraftRelease that creates whatever GetDraft answered
DraftRelease_onGet_creating(g) == "create"

\* DraftRelease once GetDraft answered: return the release found, or create
DraftRelease_onGet(g) == IF g.found THEN "return" ELSE "create"

\* the release DraftRelease creates
NewDraft(s) == Release(Len(releases) + 1, s.tag, TRUE, <<>>)

DraftRelease_GetDraft(p, net) ==
  LET s == spec[p]
      g == GetDraft(s.tag)
  IN
  /\ pc[p] = "DraftRelease"
  /\ IF ~net THEN /\ Return(p, "err", "draft release", "transport")
                  /\ UNCHANGED <<loc, step2>>
     ELSE IF DraftRelease_onGet(g) = "return"
     THEN /\ loc' = [loc EXCEPT ![p].r = g.r, ![p].seen = WithTag(s.tag)]
          /\ step2' = step2 \cup {s.sha}
          /\ AfterDraft(p)
     ELSE /\ loc' = [loc EXCEPT ![p].seen = WithTag(s.tag)]
          /\ Goto(p, "CreateRelease")
          /\ UNCHANGED step2
  /\ UNCHANGED <<refs, tagObjs, releases, reqs>>

\* Repositories.CreateRelease
DraftRelease_CreateRelease(p, net) ==
  LET s == spec[p]
      r == NewDraft(s)
  IN
  /\ pc[p] = "CreateRelease"
  /\ Issued(p, "rel")
  /\ IF ~net THEN /\ Return(p, "err", "draft release", "transport")
                  /\ UNCHANGED <<loc, step2, releases>>
     ELSE /\ releases' = <<r>> \o releases
          /\ loc' = [loc EXCEPT ![p].r = r]
          /\ step2' = step2 \cup {s.sha}
          /\ AfterDraft(p)
  /\ UNCHANGED <<refs, tagObjs>>

(* ------------------------------ the upper ------------------------------ *)

\* the name an upload gets: the full path with -f, else the base name
Dst(s, j) == IF s.keepd THEN s.uploads[j] ELSE Base(s.uploads[j])

\* an upload that takes a listed asset of the name for the file, whatever its size
upload_check_byName(dst, size, as) ==
  LET i == FirstNamed(as, dst) IN
  IF size < 0 THEN "io"
  ELSE IF i # 0 THEN "nil"
  ELSE "send"

\* upper.upload up to the upload request: the file's size against u.r.Assets
upload_check(dst, size, as) ==
  LET i == FirstNamed(as, dst) IN
  IF size < 0 THEN "io"
  ELSE IF i # 0 THEN (IF size # as[i].size THEN "conflict" ELSE "nil")
  ELSE "send"

\* u.queue(dst, src) hands job j to a free worker: the jobs are queued in
\* order and each of the wkrs workers holds one job at a time, so job j has
\* been received once fewer than wkrs of the jobs before it are unfinished
Received(p, j) ==
  Cardinality({i \in 1..(j - 1) : ~pool[p].outs[i].ran}) < spec[p].wkrs

\* Repositories.UploadReleaseAsset: the service refuses a name the release holds
UploadReleaseAsset(id, name, size) ==
  [i \in 1..Len(releases) |->
     IF releases[i].id = id
     THEN [releases[i] EXCEPT !.assets = Append(@, Asset(name, size))]
     ELSE releases[i]]

\* a worker runs u.upload(dst, src) and sends its error to the aggregator
upload(p, j, net) ==
  LET s == spec[p]
      dst == Dst(s, j)
      size == FileSize(s.uploads[j])
      chk == upload_check(dst, size, loc[p].r.assets)
      held == FirstNamed(RemoteRelease(loc[p].r.id).assets, dst) # 0
  IN
  /\ pc[p] = "upload"
  /\ j \in 1..Len(s.uploads)
  /\ ~pool[p].outs[j].ran
  /\ Received(p, j)
  /\ IF chk # "send"
     THEN /\ pool' = [pool EXCEPT ![p].outs[j] = Out(0, chk)]
          /\ UNCHANGED <<releases, reqs>>
     ELSE /\ Issued(p, "upl")
          /\ IF ~net
             THEN /\ pool' = [pool EXCEPT ![p].outs[j] = Out(1, "transport")]
                  /\ UNCHANGED releases
             ELSE IF held
             THEN /\ pool' = [pool EXCEPT ![p].outs[j] = Out(1, "name exists")]
                  /\ UNCHANGED releases
             ELSE /\ pool' = [pool EXCEPT ![p].outs[j] = Out(1, "nil")]
                  /\ releases' = UploadReleaseAsset(loc[p].r.id, dst, size)
  /\ UNCHANGED <<refs, tagObjs, foreign, pc, cl, spec, loc, res, mode, last,
                 step2, runs, plan, call>>

\* a release() that drops the errors u.wait() returns
wait_droppingErrors(p) ==
  /\ pc[p] = "upload"
  /\ \A j \in 1..Len(spec[p].uploads) : pool[p].outs[j].ran
  /\ AfterUploads(p)
  /\ UNCHANGED <<refs, tagObjs, releases, loc, reqs, step2>>

\* the errors u.wait() returns
Errs(p) == {j \in 1..Len(pool[p].outs) : pool[p].outs[j].err # "nil"}

\* u.wait(): every job was queued, every worker is done
wait(p) ==
  /\ pc[p] = "upload"
  /\ \A j \in 1..Len(spec[p].uploads) : pool[p].outs[j].ran
  /\ IF Errs(p) # {} THEN Return(p, "err", "uploads", "failed")
     ELSE AfterUploads(p)
  /\ UNCHANGED <<refs, tagObjs, releases, loc, reqs, step2>>

(* ---------------------------- PublishRelease --------------------------- *)

\* PublishRelease once GetDraft answered
PublishRelease_onGet(g) ==
  IF ~g.found THEN "not found"
  ELSE IF ~g.r.draft THEN "nil"
  ELSE "edit"

PublishRelease_GetDraft(p, net) ==
  LET s == spec[p]
      g == GetDraft(s.tag)
      to == PublishRelease_onGet(g)
  IN
  /\ pc[p] = "PublishRelease"
  /\ IF ~net THEN /\ Return(p, "err", "publish release", "transport")
                  /\ UNCHANGED loc
     ELSE /\ loc' = [loc EXCEPT ![p].seen = WithTag(s.tag),
                                ![p].pub = to,
                                ![p].e = IF to = "edit"
                                         THEN [g.r EXCEPT !.draft = FALSE]
                                         ELSE NoRelease]
          /\ CASE to = "not found" -> Return(p, "err", "publish release", "not found")
               [] to = "nil" -> Return(p, "nil", "", "")
               [] OTHER -> Goto(p, "EditRelease")
  /\ UNCHANGED <<refs, tagObjs, releases, reqs, step2>>

\* Repositories.EditRelease: the release's metadata becomes that of r
EditRelease(r) ==
  [i \in 1..Len(releases) |->
     IF releases[i].id = r.id
     THEN [releases[i] EXCEPT !.tag = r.tag, !.draft = r.draft]
     ELSE releases[i]]

PublishRelease_EditRelease(p, net) ==
  /\ pc[p] = "EditRelease"
  /\ Issued(p, "edit")
  /\ IF ~net THEN /\ Return(p, "err", "publish release", "transport")
                  /\ UNCHANGED releases
     ELSE /\ releases' = EditRelease(loc[p].e)
          /\ Return(p, "nil", "", "")
  /\ UNCHANGED <<refs, tagObjs, loc, step2>>

(* --------------------- invocations for another tag --------------------- *)

\* an invocation for another tag of the repository creates its release
ForeignRelease ==
  /\ foreign < MaxForeign
  /\ foreign' = foreign + 1
  /\ releases' = <<Release(Len(releases) + 1, TagO, TRUE, <<>>)>> \o releases
  /\ mode' = [q \in Procs |-> NoMode]
  /\ last' = NoLast
  /\ step2' = {}
  /\ UNCHANGED <<refs, tagObjs, pc, cl, spec, loc, pool, res, reqs, runs, plan, call>>

(* ------------------------------- Next ---------------------------------- *)

Next ==
  \/ \E p \in Procs, c \in CommandLines : Start(p, c)
  \/ \E p \in Procs : Crash(p)
  \/ \E p \in Procs, net \in BOOLEAN : CreateTag_GetRef(p, net)
  \/ \E p \in Procs, net \in BOOLEAN : CreateTag_GetTag(p, net)
  \/ \E p \in Procs, net \in BOOLEAN : CreateTag_GetCommit(p, net)
  \/ \E p \in Procs, net \in BOOLEAN : CreateTag_CreateTag(p, net)
  \/ \E p \in Procs, net \in BOOLEAN : CreateTag_CreateRef(p, net)
  \/ \E p \in Procs, net \in BOOLEAN : DraftRelease_GetDraft(p, net)
  \/ \E p \in Procs, net \in BOOLEAN : DraftRelease_CreateRelease(p, net)
  \/ \E p \in Procs, j \in 1..2, net \in BOOLEAN : upload(p, j, net)
  \/ \E p \in Procs : wait(p)
  \/ \E p \in Procs, net \in BOOLEAN : PublishRelease_GetDraft(p, net)
  \/ \E p \in Procs, net \in BOOLEAN : PublishRelease_EditRelease(p, net)
  \/ ForeignRelease

Spec == Init /\ [][Next]_vars

\* invocations for one identity and sha only
SpecSame == InitSame /\ [][Next]_vars

(* --------------------------- version strings --------------------------- *)

\* the longest version string drawn as an input, in characters
MaxLen == 5
\* the width of int, scaled from 64 bits
IntBits == 4
MaxInt == 2^(IntBits - 1) - 1
MinInt == -(2^(IntBits - 1))

\* a string is the sequence of its characters
Digit == {"0", "1", "2", "3", "4", "5", "6", "7", "8", "9"}
DigitVal(ch) ==
  CASE ch = "0" -> 0 [] ch = "1" -> 1 [] ch = "2" -> 2 [] ch = "3" -> 3
    [] ch = "4" -> 4 [] ch = "5" -> 5 [] ch = "6" -> 6 [] ch = "7" -> 7
    [] ch = "8" -> 8 [] ch = "9" -> 9
DigitChar(n) == CHOOSE ch \in Digit : DigitVal(ch) = n

\* the value of a run of digits, as far as it matters: no more than MaxInt + 1
RECURSIVE Dec(_, _)
Dec(s, acc) ==
  IF s = <<>> THEN acc
  ELSE LET n == 10 * acc + DigitVal(Head(s))
       IN Dec(Tail(s), IF n > MaxInt THEN MaxInt + 1 ELSE n)

\* strconv.Atoi: 0 and an error for what is no number, the nearest int and an
\* error for a number out of range
Atoi(s) ==
  IF s = <<>> \/ \E i \in 1..Len(s) : s[i] \notin Digit THEN [n |-> 0, err |-> TRUE]
  ELSE IF Dec(s, 0) > MaxInt THEN [n |-> MaxInt, err |-> TRUE]
  ELSE [n |-> Dec(s, 0), err |-> FALSE]

\* i++ on an int
Incr(i) == IF i = MaxInt THEN MinInt ELSE i + 1

RECURSIVE Digits(_)
Digits(n) ==
  IF n < 10 THEN <<DigitChar(n)>>
  ELSE Append(Digits(n \div 10), DigitChar(n % 10))

\* strconv.Itoa
Itoa(n) == IF n < 0 THEN <<"-">> \o Digits(-n) ELSE Digits(n)

\* the end of the run of digits of s that starts at i
RECURSIVE RunEnd(_, _)
RunEnd(s, i) ==
  IF i < Len(s) /\ s[i + 1] \in Digit THEN RunEnd(s, i + 1) ELSE i

\* versionRe.FindStringSubmatchIndex: the leftmost match of
\* (\d+)(?:\.(\d+))?(?:\.(\d+))? in s, every part as long as it can be;
\* lo..hi is the match, ms the three groups ("" for a group that took no part)
FindVersion(s) ==
  IF \A i \in 1..Len(s) : s[i] \notin Digit
  THEN [found |-> FALSE, lo |-> 0, hi |-> 0, ms |-> <<>>]
  ELSE LET lo == CHOOSE i \in 1..Len(s) :
                   s[i] \in Digit /\ \A j \in 1..(i - 1) : s[j] \notin Digit
           e1 == RunEnd(s, lo)
           has2 == e1 + 2 <= Len(s) /\ s[e1 + 1] = "." /\ s[e1 + 2] \in Digit
           e2 == IF has2 THEN RunEnd(s, e1 + 2) ELSE e1
           has3 == e2 + 2 <= Len(s) /\ s[e2 + 1] = "." /\ s[e2 + 2] \in Digit
           e3 == IF has3 THEN RunEnd(s, e2 + 2) ELSE e2
       IN [found |-> TRUE, lo |-> lo, hi |-> e3,
           ms |-> << SubSeq(s, lo, e1),
                     IF has2 THEN SubSeq(s, e1 + 2, e2) ELSE <<>>,
                     IF has3 THEN SubSeq(s, e2 + 2, e3) ELSE <<>> >>]

\* the increments: indexes of the groups
major == 1
minor == 2
patch == 3
Increments == {major, minor, patch}

Zeros == <<(<<"0">>), (<<"0">>), (<<"0">>)>>
V000 == <<"v", "0", ".", "0", ".", "0">>

\* version.bump
bump(v, incr) ==
  LET f == FindVersion(v)
      now == IF f.found THEN v ELSE V000
      ms == IF f.found THEN f.ms ELSE Zeros
      i == Incr(Atoi(ms[incr]).n)
      ms2 == [k \in 1..3 |->
                IF k = incr THEN Itoa(i) ELSE IF k > incr THEN <<"0">> ELSE ms[k]]
      next == ms2[major] \o <<".">> \o ms2[minor] \o <<".">> \o ms2[patch]
      l == FindVersion(now)
  IN SubSeq(now, 1, l.lo - 1) \o next \o SubSeq(now, l.hi + 1, Len(now))

\* version.isBefore
isBefore_majorOnly(v, u) ==
  LET vs == IF FindVersion(v).found THEN FindVersion(v).ms ELSE Zeros
      us == IF FindVersion(u).found THEN FindVersion(u).ms ELSE Zeros
  IN Atoi(vs[major]).n < Atoi(us[major]).n

isBefore(v, u) ==
  LET fv == FindVersion(v)
      fu == FindVersion(u)
      vs == IF fv.found THEN fv.ms ELSE Zeros
      us == IF fu.found THEN fu.ms ELSE Zeros
      a == [k \in 1..3 |-> Atoi(vs[k]).n]
      b == [k \in 1..3 |-> Atoi(us[k]).n]
  IN IF a[1] # b[1] THEN a[1] < b[1]
     ELSE IF a[2] # b[2] THEN a[2] < b[2]
     ELSE a[3] < b[3]

\* the characters input strings are made of: digits within and beyond int's
\* range, the dot, and a character that is neither
Chars == {"0", "1", "7", "9", ".", "v"}

RECURSIVE StringsOf(_)
StringsOf(n) ==
  IF n = 0 THEN {<<>>}
  ELSE LET shorter == StringsOf(n - 1)
       IN shorter \cup {Append(s, ch) : s \in {x \in shorter : Len(x) = n - 1}, ch \in Chars}

v123 == <<"v", "1", ".", "2", ".", "3">>
Versions == StringsOf(MaxLen) \cup {v123, <<"v", "1", ".", "2", ".", "3", "-", "r", "c">>}

\* the variables of the release protocol, which a call of a local function
\* leaves alone
protocol == <<refs, tagObjs, releases, foreign, pc, cl, spec, loc, pool, res,
              reqs, mode, last, step2, runs, plan>>

InitIdle ==
  /\ InitState /\ releases = <<>> /\ refs[TagT] = NoRef
  /\ plan = [lines |-> {}, max |-> 0]

InitBump ==
  /\ InitIdle
  /\ \E s \in Versions : call = [fn |-> "version", v |-> s]

\* v.bump(incr)
Bump(incr) ==
  /\ call.fn = "version"
  /\ call' = [fn |-> "bump", v |-> call.v, incr |-> incr, out |-> bump(call.v, incr)]
  /\ UNCHANGED protocol

NextBump == \E incr \in Increments : Bump(incr)

SpecBump == InitBump /\ [][NextBump]_vars

MaxOrderLen == 2
\* the strings isBefore is called with: every short string, and versions of
\* two and three components with text around them
OrderVersions ==
  StringsOf(MaxOrderLen) \cup
    { <<"0", ".", "1">>, <<"1", ".", "0">>, <<"1", ".", "1">>, <<"7", ".", "9">>,
      <<"0", ".", "0", ".", "1">>, <<"0", ".", "1", ".", "0">>, <<"1", ".", "0", ".", "0">>,
      <<"v", "1", ".", "0", ".", "1">>, <<"1", ".", "0", ".", "1", "-", "7">>, <<"v", ".", "1">> }

InitOrder ==
  /\ InitIdle
  /\ \E a \in OrderVersions, b \in OrderVersions, c \in OrderVersions :
       call = [fn |-> "versions", v |-> a, u |-> b, w |-> c]

\* v.isBefore(u), and the calls on the other pairs of the three versions
IsBefore ==
  /\ call.fn = "versions"
  /\ call' = [fn |-> "isBefore", v |-> call.v, u |-> call.u, w |-> call.w,
              vu |-> isBefore(call.v, call.u), uv |-> isBefore(call.u, call.v),
              uw |-> isBefore(call.u, call.w), vw |-> isBefore(call.v, call.w),
              vv |-> isBefore(call.v, call.v)]
  /\ UNCHANGED protocol

NextOrder == IsBefore

SpecOrder == InitOrder /\ [][NextOrder]_vars

(* ----------------------- the walks of the history ---------------------- *)

\* the text of a version file's line
RECURSIVE Dotted(_)
Dotted(nums) ==
  IF nums = <<>> THEN <<>>
  ELSE IF Len(nums) = 1 THEN Itoa(nums[1])
  ELSE Itoa(nums[1]) \o <<".">> \o Dotted(Tail(nums))
Text(v) ==
  (IF v.pre = "" THEN <<>> ELSE <<v.pre>>) \o Dotted(v.nums)
    \o (IF v.suf = "" THEN <<>> ELSE <<v.suf>>)

\* commit.Message
Message(c) == <<"commit", c>>

\* a buffer that keeps every commit sent, seen or not
Send_keepDuplicates(q, c) == [cs |-> Append(q.cs, c), seen |-> q.seen \cup {c}]
\* a buffer that puts a new commit in front of the queue
Send_inFront(q, c) ==
  IF c \in q.seen THEN q ELSE [cs |-> <<c>> \o q.cs, seen |-> q.seen \cup {c}]
\* a buffer that empties its queue on a receive
Taken_all(q) == [q EXCEPT !.cs = <<>>]

\* passCommits: the queue of commits sent and not yet received, and the
\* hashes seen; a commit sent twice is discarded
Pass == [cs |-> <<>>, seen |-> {}]
Send(q, c) ==
  IF c \in q.seen THEN q ELSE [cs |-> Append(q.cs, c), seen |-> q.seen \cup {c}]
Taken(q) == [q EXCEPT !.cs = Tail(q.cs)]

RECURSIVE mainlineParents_sameVersion(_, _, _, _, _)
mainlineParents_sameVersion(h, q, ps, cv, np) ==
  IF ps = <<>> THEN [err |-> FALSE, q |-> q]
  ELSE LET pv == at(h, Head(ps)) IN
       IF pv.err THEN [err |-> TRUE, q |-> q]
       ELSE IF cv # pv.v THEN mainlineParents_sameVersion(h, q, Tail(ps), cv, np)
       ELSE mainlineParents_sameVersion(h, Send(q, Head(ps)), Tail(ps), cv, np)

RECURSIVE mainlineParents_all(_, _, _, _, _)
mainlineParents_all(h, q, ps, cv, np) ==
  IF ps = <<>> THEN [err |-> FALSE, q |-> q]
  ELSE mainlineParents_all(h, Send(q, Head(ps)), Tail(ps), cv, np)

\* mainline's Parents().ForEach: a parent of a merge is sent if it carries the
\* merge's version, the parent of any other commit always
RECURSIVE mainlineParents(_, _, _, _, _)
mainlineParents(h, q, ps, cv, np) ==
  IF ps = <<>> THEN [err |-> FALSE, q |-> q]
  ELSE IF np > 1
    THEN LET pv == at(h, Head(ps)) IN
         IF pv.err THEN [err |-> TRUE, q |-> q]
         ELSE IF cv # pv.v THEN mainlineParents(h, q, Tail(ps), cv, np)
         ELSE mainlineParents(h, Send(q, Head(ps)), Tail(ps), cv, np)
    ELSE mainlineParents(h, Send(q, Head(ps)), Tail(ps), cv, np)

RECURSIVE mainlineLoop(_, _, _)
mainlineLoop(h, q, ml) ==
  IF q.cs = <<>> THEN [err |-> FALSE, ml |-> ml]
  ELSE LET c == Head(q.cs)
           q1 == Taken(q)
           np == Len(h.parents[c])
       IN IF c \in ml THEN mainlineLoop(h, q1, ml)
          ELSE IF np = 0 THEN mainlineLoop(h, q1, ml \cup {c})
          ELSE LET cv == at(h, c) IN
               IF cv.err THEN [err |-> TRUE, ml |-> {}]
               ELSE LET sent == mainlineParents(h, q1, h.parents[c], cv.v, np) IN
                    IF sent.err THEN [err |-> TRUE, ml |-> ml \cup {c}]
                    ELSE mainlineLoop(h, sent.q, ml \cup {c})

\* versioner.mainline
mainline(h, c) == mainlineLoop(h, Send(Pass, c), {})

RECURSIVE SendAll(_, _)
SendAll(q, ps) == IF ps = <<>> THEN q ELSE SendAll(Send(q, Head(ps)), Tail(ps))

RECURSIVE logBranchLoop(_, _, _, _)
logBranchLoop(h, ml, q, ss) ==
  IF q.cs = <<>> THEN ss
  ELSE LET c == Head(q.cs)
           q1 == Taken(q)
       IN IF c \in ml THEN logBranchLoop(h, ml, q1, ss)
          ELSE IF h.parents[c] = <<>> THEN logBranchLoop(h, ml, q1, Append(ss, Message(c)))
          ELSE logBranchLoop(h, ml, SendAll(q1, h.parents[c]), Append(ss, Message(c)))

\* a branch log that walks on through the mainline
logBranch_throughMainline(h, c, ml) == logBranchLoop(h, {}, Send(Pass, c), <<>>)

\* versioner.logBranch
logBranch(h, c, ml) == logBranchLoop(h, ml, Send(Pass, c), <<>>)

\* a ForEach that sends every parent and appends no branch log
RECURSIVE logMainParents_sendAll(_, _, _, _, _)
logMainParents_sendAll(h, ml, q, ps, msgs) ==
  IF ps = <<>> THEN [q |-> q, msgs |-> msgs]
  ELSE logMainParents_sendAll(h, ml, Send(q, Head(ps)), Tail(ps), msgs)

\* logMain's Parents().ForEach: a mainline parent is sent, the log of any
\* other parent's branch is appended
RECURSIVE logMainParents(_, _, _, _, _)
logMainParents(h, ml, q, ps, msgs) ==
  IF ps = <<>> THEN [q |-> q, msgs |-> msgs]
  ELSE IF Head(ps) \in ml
    THEN logMainParents(h, ml, Send(q, Head(ps)), Tail(ps), msgs)
    ELSE logMainParents(h, ml, q, Tail(ps), msgs \o logBranch(h, Head(ps), ml))

RECURSIVE logMainLoop(_, _, _, _)
logMainLoop(h, ml, q, msgs) ==
  IF q.cs = <<>> THEN [err |-> FALSE, msgs |-> msgs]
  ELSE LET c == Head(q.cs)
           q1 == Taken(q)
           np == Len(h.parents[c])
       IN IF np = 0 THEN logMainLoop(h, ml, q1, Append(msgs, Message(c)))
          ELSE IF np = 1
            THEN LET cv == at(h, c)
                     pc_ == h.parents[c][1]
                     pv == at(h, pc_)
                 IN IF cv.err \/ pv.err THEN [err |-> TRUE, msgs |-> msgs]
                    ELSE IF cv.v # pv.v THEN logMainLoop(h, ml, q1, msgs)
                    ELSE logMainLoop(h, ml, Send(q1, pc_), Append(msgs, Message(c)))
            ELSE LET next == logMainParents(h, ml, q1, h.parents[c], Append(msgs, Message(c)))
                 IN logMainLoop(h, ml, next.q, next.msgs)

logMain_oldestFirst(h, c, ml) ==
  LET out == logMainLoop(h, ml, Send(Pass, c), <<>>)
  IN [err |-> out.err,
      msgs |-> [i \in 1..Len(out.msgs) |-> out.msgs[Len(out.msgs) + 1 - i]]]

\* versioner.logMain
logMain(h, c, ml) == logMainLoop(h, ml, Send(Pass, c), <<>>)

\* versioner.logHead
logHead(h) ==
  LET ml == mainline(h, h.head) IN
  IF ml.err THEN [err |-> TRUE, msgs |-> <<>>]
  ELSE logMain(h, h.head, ml.ml)

(* --------------------------- the changed files ------------------------- *)

\* a repository: its history and, per commit, the files of the commit's tree
\* other than the version file; a path is the sequence of its elements
VersionPath == <<"VERSION">>
Blob(path, content) == [path |-> path, blob |-> content]
Tree(r, c) ==
  r.tree[c] \cup
    (IF r.hist.file[c].present THEN {Blob(VersionPath, r.hist.file[c].line)} ELSE {})

\* Change.From.Name, Change.To.Name: "" for a path the side does not have
NoName == <<>>
Names(tree) == {e.path : e \in tree}
\* object.Tree.Diff: one change per path whose blob differs between the trees
Diff(from, to) ==
  { [from |-> IF n \in Names(from) THEN n ELSE NoName,
     to |-> IF n \in Names(to) THEN n ELSE NoName] :
      n \in {m \in Names(from) \cup Names(to) :
               {e \in from : e.path = m} # {e \in to : e.path = m}} }

\* path.Dir of a slash-separated relative path
Dot == <<".">>
Dir(s) == IF Len(s) <= 1 THEN Dot ELSE SubSeq(s, 1, Len(s) - 1)

put_noDirs(fs, s) == IF s = NoName THEN fs ELSE fs \cup {s}

\* files' put, for one name: the name and its directories up to "." or "/"
RECURSIVE putDirs(_, _)
putDirs(fs, s) ==
  LET d == Dir(s) IN
  IF d = Dot \/ d = <<"/">> THEN fs ELSE putDirs(fs \cup {d}, d)
put(fs, s) == IF s = NoName THEN fs ELSE putDirs(fs \cup {s}, s)

RECURSIVE putAll(_, _)
putAll(fs, cs) ==
  IF cs = {} THEN fs
  ELSE LET c == CHOOSE x \in cs : TRUE
       IN putAll(put(put(fs, c.from), c.to), cs \ {c})

\* files' Parents().ForEach on a merge: a parent whose version is not before
\* the base version is sent
RECURSIVE filesParents(_, _, _, _)
filesParents(h, q, ps, vbase) ==
  IF ps = <<>> THEN [err |-> FALSE, q |-> q]
  ELSE LET v == at(h, Head(ps)) IN
       IF v.err THEN [err |-> TRUE, q |-> q]
       ELSE IF isBefore(Text(v.v), Text(vbase)) THEN filesParents(h, q, Tail(ps), vbase)
       ELSE filesParents(h, Send(q, Head(ps)), Tail(ps), vbase)

\* a loop that keeps every commit passed, also the one it does not expand
RECURSIVE filesLoop_keepOlder(_, _, _, _)
filesLoop_keepOlder(h, q, vbase, cmt) ==
  IF q.cs = <<>> THEN [err |-> FALSE, cmt |-> cmt]
  ELSE LET c == Head(q.cs)
           q1 == Taken(q)
           np == Len(h.parents[c])
       IN IF np = 0 THEN filesLoop_keepOlder(h, q1, vbase, c)
          ELSE IF np = 1
            THEN LET v == at(h, c) IN
                 IF v.err THEN [err |-> TRUE, cmt |-> cmt]
                 ELSE IF isBefore(Text(v.v), Text(vbase)) THEN filesLoop_keepOlder(h, q1, vbase, c)
                 ELSE filesLoop_keepOlder(h, Send(q1, h.parents[c][1]), vbase, c)
            ELSE LET sent == filesParents(h, q1, h.parents[c], vbase) IN
                 IF sent.err THEN [err |-> TRUE, cmt |-> cmt]
                 ELSE filesLoop_keepOlder(h, sent.q, vbase, c)

\* files' loop over the commits passed; cmt is 0 while no commit was kept
RECURSIVE filesLoop(_, _, _, _)
filesLoop(h, q, vbase, cmt) ==
  IF q.cs = <<>> THEN [err |-> FALSE, cmt |-> cmt]
  ELSE LET c == Head(q.cs)
           q1 == Taken(q)
           np == Len(h.parents[c])
       IN IF np = 0 THEN filesLoop(h, q1, vbase, c)
          ELSE IF np = 1
            THEN LET v == at(h, c) IN
                 IF v.err THEN [err |-> TRUE, cmt |-> cmt]
                 ELSE IF isBefore(Text(v.v), Text(vbase)) THEN filesLoop(h, q1, vbase, cmt)
                 ELSE filesLoop(h, Send(q1, h.parents[c][1]), vbase, c)
            ELSE LET sent == filesParents(h, q1, h.parents[c], vbase) IN
                 IF sent.err THEN [err |-> TRUE, cmt |-> cmt]
                 ELSE filesLoop(h, sent.q, vbase, c)

\* the commits files' loop receives, in order, up to an error or the end
RECURSIVE filesPassed(_, _, _, _)
filesPassed(h, q, vbase, got) ==
  IF q.cs = <<>> THEN got
  ELSE LET c == Head(q.cs)
           q1 == Taken(q)
           np == Len(h.parents[c])
           got1 == Append(got, c)
       IN IF np = 0 THEN filesPassed(h, q1, vbase, got1)
          ELSE IF np = 1
            THEN LET v == at(h, c) IN
                 IF v.err THEN got1
                 ELSE IF isBefore(Text(v.v), Text(vbase)) THEN filesPassed(h, q1, vbase, got1)
                 ELSE filesPassed(h, Send(q1, h.parents[c][1]), vbase, got1)
            ELSE LET sent == filesParents(h, q1, h.parents[c], vbase) IN
                 IF sent.err THEN got1
                 ELSE filesPassed(h, sent.q, vbase, got1)

\* files' vbase: the version at HEAD's first parent if HEAD is a release
\* commit, else the version at HEAD; the zero version where at fails unseen
filesBase(h) ==
  LET base == IF isRelease(h).ok THEN at(h, h.parents[h.head][1]) ELSE at(h, h.head)
  IN IF base.err THEN NoVersion ELSE base.v

\* an error of files(); nocmt for "cant get commits. missing VERSION?"
NoFiles == [err |-> TRUE, fs |-> {}, cmt |-> 0, nocmt |-> FALSE]
NoCommits == [err |-> TRUE, fs |-> {}, cmt |-> 0, nocmt |-> TRUE]

files_sinceNothing(r) ==
  [err |-> FALSE, fs |-> putAll({}, Diff(Tree(r, r.hist.head), {})), cmt |-> 0,
   nocmt |-> FALSE]

\* versioner.files
files(r) ==
  LET h == r.hist
      ok == isRelease(h)
  IN IF ok.err THEN NoFiles
     ELSE IF ok.ok /\ h.parents[h.head] = <<>> THEN NoFiles
     ELSE LET base == IF ok.ok THEN at(h, h.parents[h.head][1]) ELSE at(h, h.head)
              \* in the release case the error of at lands in a shadowed err
              vbase == IF base.err THEN NoVersion ELSE base.v
          IN IF ~ok.ok /\ base.err THEN NoFiles
             ELSE LET walk == filesLoop(h, Send(Pass, h.head), vbase, 0) IN
                  IF walk.err THEN NoFiles
                  ELSE IF walk.cmt = 0 THEN NoCommits
                  ELSE [err |-> FALSE,
                        fs |-> putAll({}, Diff(Tree(r, h.head), Tree(r, walk.cmt))),
                        cmt |-> walk.cmt, nocmt |-> FALSE]

(* ------------------------- the local repositories ---------------------- *)

MaxCommits == 3

\* a version file whose first line holds no number, and one that holds the
\* numbers of V1 without the leading "v"
Unversioned == Ver("x", <<>>, "")
V1Plain == Ver("", <<1, 0, 0>>, "")
FileOptions == {NoFile, File(V1), File(V2), File(V1Plain), File(Unversioned)}

\* the parents a commit may have: at most two commits, each older than it
ParentOptions(c, n) ==
  {<<>>} \cup {<<p>> : p \in (c + 1)..n}
         \cup {x \in ((c + 1)..n) \X ((c + 1)..n) : x[1] # x[2]}

\* the histories of n commits whose HEAD is commit 1
Histories(n) ==
  { Hist(1, ps, fs) :
      ps \in {x \in [1..n -> UNION {ParentOptions(c, n) : c \in 1..n}] :
                \A c \in 1..n : x[c] \in ParentOptions(c, n)},
      fs \in [1..n -> FileOptions] }

\* a chain of four commits, oldest last
Linear4 ==
  { Hist(1, <<(<<2>>), <<3>>, <<4>>, <<>>>>, fs) :
      fs \in [1..4 -> {NoFile, File(V1), File(V2)}] }

\* root (5) -> A (4) -> B (2) -> C (1), C merging B and the side commit D (3)
Merged ==
  { Hist(1, <<m, <<4>>, d, <<5>>, <<>>>>, <<File(V2), File(V1), side, File(V1), root>>) :
      m \in {<<2, 3>>, <<3, 2>>}, d \in {<<>>, <<4>>, <<5>>}, root \in {NoFile, File(V1)},
      side \in {File(V1), File(V2)} }

\* the trees of the commits, without the version file
TreeOptions ==
  { {},
    {Blob(<<"a", "b", "x">>, 1)},
    {Blob(<<"a", "b", "x">>, 2), Blob(<<"c">>, 1)} }
Trees(n) == [1..n -> TreeOptions]
Grown(n) ==
  [c \in 1..n |-> IF c = n THEN {}
                  ELSE IF c = 1 THEN {Blob(<<"a", "b", "x">>, 2), Blob(<<"c">>, 1)}
                  ELSE {Blob(<<"a", "b", "x">>, c)}]

Repos ==
  {[hist |-> h, tree |-> tr] : h \in Histories(MaxCommits), tr \in Trees(MaxCommits)}
    \cup {[hist |-> h, tree |-> tr] : h \in Histories(1), tr \in Trees(1)}
    \cup {[hist |-> h, tree |-> Grown(4)] : h \in Linear4}
    \cup {[hist |-> h, tree |-> Grown(5)] : h \in Merged}

InitRepo ==
  /\ InitIdle
  /\ \E r \in Repos : call = [fn |-> "repo", r |-> r]

InRepo == call.fn \in {"repo", "isRelease", "logHead", "files", "mainline"}

\* vr.isRelease()
IsRelease ==
  /\ InRepo
  /\ call' = [fn |-> "isRelease", r |-> call.r, out |-> isRelease(call.r.hist)]
  /\ UNCHANGED protocol

\* vr.logHead()
LogHead ==
  /\ InRepo
  /\ call' = [fn |-> "logHead", r |-> call.r, out |-> logHead(call.r.hist)]
  /\ UNCHANGED protocol

\* vr.files()
Files ==
  /\ InRepo
  /\ call' = [fn |-> "files", r |-> call.r, out |-> files(call.r)]
  /\ UNCHANGED protocol

\* vr.mainline(hc)
Mainline ==
  /\ InRepo
  /\ call' = [fn |-> "mainline", r |-> call.r,
              out |-> mainline(call.r.hist, call.r.hist.head)]
  /\ UNCHANGED protocol

NextRepo == IsRelease \/ LogHead \/ Files \/ Mainline

SpecRepo == InitRepo /\ [][NextRepo]_vars

(* --------------------------- the bump subcommand ----------------------- *)

\* the -latest flag: not given, or the latest release of the repository it
\* names as GetRelease answers (an error, or the release's tag name)
NoLatest == [given |-> FALSE, err |-> FALSE, tag |-> NoVersion]
Latest(tag) == [given |-> TRUE, err |-> FALSE, tag |-> tag]
LatestFails == [given |-> TRUE, err |-> TRUE, tag |-> NoVersion]
LatestOptions == {NoLatest, LatestFails, Latest(V1), Latest(Unversioned)}

\* the lines of the version file after its first line, as committed at HEAD
BodyOptions == {<<>>, <<(<<"- ", "older">>)>>}

lastLog_workingFile(h, body) == call.work

\* versioner.lastLog: the lines of the version file at HEAD, none if absent
lastLog(h, body) ==
  IF ~h.file[h.head].present THEN <<>>
  ELSE <<Text(h.file[h.head].line)>> \o body

\* the lines bump prints for the messages: a blank line, an item per message,
\* a blank line
Blank == <<>>
Items(msgs) ==
  IF msgs = <<>> THEN <<>>
  ELSE <<Blank>> \o [i \in 1..Len(msgs) |-> <<"- ", msgs[i]>>] \o <<Blank>>

NotWritten == [err |-> TRUE, wrote |-> FALSE, file |-> <<>>, stdout |-> <<>>]

\* what bump prints once the version, the messages and the committed content
\* are known
emit(v, msgs, lastlog, incr, write, nolog) ==
  LET lines == <<bump(Text(v), incr)>>
                 \o (IF nolog THEN <<>>
                     ELSE Items(msgs)
                            \o (IF write /\ lastlog # <<>> THEN <<Blank>> \o lastlog ELSE <<>>))
  IN [err |-> FALSE, wrote |-> write,
      file |-> IF write THEN lines ELSE <<>>,
      stdout |-> IF write THEN <<>> ELSE lines]

\* Subcmd bump
bumpCmd(h, body, latest, incr, write, nolog) ==
  IF ~latest.given
    THEN LET u == at(h, h.head) IN
         IF u.err THEN NotWritten
         ELSE IF nolog THEN emit(u.v, <<>>, <<>>, incr, write, nolog)
         ELSE LET ss == logHead(h) IN
              IF ss.err THEN NotWritten
              ELSE emit(u.v, ss.msgs, lastLog(h, body), incr, write, nolog)
    ELSE IF latest.err THEN NotWritten
         ELSE LET u == parseVersion(latest.tag) IN
              IF u.err THEN NotWritten
              ELSE IF nolog THEN emit(u.v, <<>>, <<>>, incr, write, nolog)
              ELSE emit(u.v, <<(<<"bumped from", String(u.v)>>)>>, <<>>, incr, write, nolog)

\* the runs of bump on one HEAD
MaxBumps == 2

\* the version file of the working tree before the first run: absent, or
\* lines that were never committed
WorkOptions == {<<>>, <<(<<"v", "9">>), <<"- ", "uncommitted">>>>}

InitWrite ==
  /\ InitIdle
  /\ \E h \in Histories(1) \cup Linear4 \cup Merged, body \in BodyOptions,
        latest \in LatestOptions, incr \in Increments, write \in BOOLEAN, nolog \in BOOLEAN,
        work \in WorkOptions :
       call = [fn |-> "args", h |-> h, body |-> body, latest |-> latest,
               incr |-> incr, w |-> write, n |-> nolog,
               work |-> work, runs |-> 0, out |-> NotWritten]

\* the state after a run that returned out: os.Create and the printing replace
\* the working tree's version file
afterBump(c, out) ==
  [c EXCEPT !.fn = "bumpCmd", !.runs = @ + 1, !.out = out,
            !.work = IF out.wrote THEN out.file ELSE @]

\* one run of bump with the command line's flags
BumpCmd ==
  /\ call.fn \in {"args", "bumpCmd"}
  /\ call.runs < MaxBumps
  /\ call' = afterBump(call, bumpCmd(call.h, call.body, call.latest, call.incr, call.w, call.n))
  /\ UNCHANGED protocol

NextWrite == BumpCmd

SpecWrite == InitWrite /\ [][NextWrite]_vars

(* ========================= the commit buffer ============================ *)

\* the commits a client sends, and the sends and receives of one buffer
MaxHashes == 3
MaxEvents == 6
Hashes == 1..MaxHashes
\* the nil commit
NilCommit == 0

\* one passCommits instance: the goroutine's queue, whether it has closed rcv
\* and returned, and the sends and receives completed so far
InitPass ==
  /\ InitIdle
  /\ call = [fn |-> "passCommits", q |-> Pass, closed |-> FALSE, log |-> <<>>]

PassOpen ==
  /\ call.fn = "passCommits"
  /\ ~call.closed
  /\ Len(call.log) < MaxEvents

\* case c := <-snd: a client's send is taken; a seen hash is discarded
passCommits_snd(c) ==
  /\ PassOpen
  /\ call' = [call EXCEPT !.q = Send(@, c),
                          !.log = Append(@, [op |-> "snd", c |-> c])]
  /\ UNCHANGED protocol

\* case rcv <- c: a client receives cs[0], or nil when the queue is empty,
\* after which rcv is closed and the goroutine returns
passCommits_rcv ==
  /\ PassOpen
  /\ IF call.q.cs = <<>>
     THEN call' = [call EXCEPT !.closed = TRUE,
                               !.log = Append(@, [op |-> "rcv", c |-> NilCommit])]
     ELSE call' = [call EXCEPT !.q = Taken(@),
                               !.log = Append(@, [op |-> "rcv", c |-> Head(call.q.cs)])]
  /\ UNCHANGED protocol

NextPass ==
  \/ \E c \in Hashes : passCommits_snd(c)
  \/ passCommits_rcv

SpecPass == InitPass /\ [][NextPass]_vars

(* ========================== the worker pool ============================= *)

\* the workers of a pool and the jobs queued before wait()
MaxWorkers == 3
MaxJobs == 3

\* an aggregator that drops a second error
erraggr_rcv_oneError(errs, err) == IF err # 0 /\ errs = <<>> THEN <<err>> ELSE errs
\* case err := <-rcv of erraggr: a nil error (0) is not kept
erraggr_rcv(errs, err) == IF err # 0 THEN Append(errs, err) ELSE errs

\* u.upload(v.dst, v.src) of job j: nil (0), or an error of that job (j)
jobResult(fails, j) == IF fails[j] THEN j ELSE 0

\* newUpper / newDowner with the -w flag's value W, and a caller that queues
\* the jobs one after the other and then waits: m is the caller's position,
\* k the queue() calls that returned, i the done signals wait() received;
\* wk the workers' positions; by and fin who started and how often each job
\* was finished
InitPool ==
  /\ InitIdle
  /\ \E W \in 0..MaxWorkers, K \in 0..MaxJobs :
       \E fails \in [1..K -> BOOLEAN] :
         call = [fn |-> "pool", W |-> W, fails |-> fails,
                 m |-> "queue", k |-> 0, i |-> 0,
                 wk |-> [w \in 1..W |-> [pc |-> "range", job |-> 0, err |-> 0]],
                 closed |-> FALSE, errs |-> <<>>, aggr |-> "select",
                 by |-> [j \in 1..K |-> {}], fin |-> [j \in 1..K |-> 0],
                 ret |-> <<>>]

InPool == call.fn = "pool"
Jobs == IF InPool THEN DOMAIN call.fails ELSE {}
Wkrs == IF InPool THEN DOMAIN call.wk ELSE {}

\* a send on ulc that completes without a worker receiving it
pool_queue_buffered(w) ==
  /\ InPool
  /\ call.m = "queue" /\ call.k < Len(call.fails)
  /\ call' = [call EXCEPT !.k = @ + 1]
  /\ UNCHANGED protocol

\* a worker that takes a job without the caller's send completing
pool_queue_noAdvance(w) ==
  /\ InPool /\ w \in Wkrs
  /\ call.m = "queue" /\ call.k < Len(call.fails)
  /\ call.wk[w].pc = "range"
  /\ LET j == call.k + 1 IN
     call' = [call EXCEPT !.wk[w] = [pc |-> "upload", job |-> j, err |-> 0],
                          !.by[j] = @ \cup {w}]
  /\ UNCHANGED protocol

\* ulc <- ul{dst, src} meets a worker's range ulc: queue() returns and the
\* worker starts the job
pool_queue(w) ==
  /\ InPool /\ w \in Wkrs
  /\ call.m = "queue" /\ call.k < Len(call.fails)
  /\ call.wk[w].pc = "range"
  /\ LET j == call.k + 1 IN
     call' = [call EXCEPT !.k = j,
                          !.wk[w] = [pc |-> "upload", job |-> j, err |-> 0],
                          !.by[j] = @ \cup {w}]
  /\ UNCHANGED protocol

\* the job's u.upload returns
pool_upload(w) ==
  /\ InPool /\ w \in Wkrs
  /\ call.wk[w].pc = "upload"
  /\ LET j == call.wk[w].job IN
     call' = [call EXCEPT !.wk[w].pc = "errs",
                          !.wk[w].err = jobResult(call.fails, j),
                          !.fin[j] = @ + 1]
  /\ UNCHANGED protocol

\* errs <- err meets the aggregator's case err := <-rcv
pool_errs(w) ==
  /\ InPool /\ w \in Wkrs
  /\ call.wk[w].pc = "errs"
  /\ call.aggr = "select"
  /\ call' = [call EXCEPT !.errs = erraggr_rcv(@, call.wk[w].err),
                          !.wk[w] = [pc |-> "range", job |-> 0, err |-> 0]]
  /\ UNCHANGED protocol

\* wait(): close(ulc), after the last queue()
pool_close ==
  /\ InPool
  /\ call.m = "queue" /\ call.k = Len(call.fails)
  /\ call' = [call EXCEPT !.closed = TRUE,
                          !.m = IF call.W > 0 THEN "done" ELSE "eall"]
  /\ UNCHANGED protocol

\* a worker's range ulc ends on the closed channel
pool_rangeEnd(w) ==
  /\ InPool /\ w \in Wkrs
  /\ call.wk[w].pc = "range"
  /\ call.closed
  /\ call' = [call EXCEPT !.wk[w].pc = "done"]
  /\ UNCHANGED protocol

\* a wait() that receives one done signal only
pool_done_first(w) ==
  /\ InPool /\ w \in Wkrs
  /\ call.m = "done"
  /\ call.wk[w].pc = "done"
  /\ call' = [call EXCEPT !.i = @ + 1, !.wk[w].pc = "exit", !.m = "eall"]
  /\ UNCHANGED protocol

\* done <- struct{}{} meets one <-done of wait()'s loop
pool_done(w) ==
  /\ InPool /\ w \in Wkrs
  /\ call.m = "done"
  /\ call.wk[w].pc = "done"
  /\ call' = [call EXCEPT !.i = @ + 1,
                          !.wk[w].pc = "exit",
                          !.m = IF call.i + 1 < call.W THEN "done" ELSE "eall"]
  /\ UNCHANGED protocol

\* return <-eall meets the aggregator's case snd <- errs, which returns
pool_eall ==
  /\ InPool
  /\ call.m = "eall"
  /\ call.aggr = "select"
  /\ call' = [call EXCEPT !.ret = call.errs, !.aggr = "return", !.m = "return"]
  /\ UNCHANGED protocol

Worker(w) ==
  \/ pool_queue(w)
  \/ pool_upload(w)
  \/ pool_errs(w)
  \/ pool_rangeEnd(w)
  \/ pool_done(w)

NextPool ==
  \/ \E w \in 1..MaxWorkers : pool_queue(w)
  \/ \E w \in 1..MaxWorkers : pool_upload(w)
  \/ \E w \in 1..MaxWorkers : pool_errs(w)
  \/ pool_close
  \/ \E w \in 1..MaxWorkers : pool_rangeEnd(w)
  \/ \E w \in 1..MaxWorkers : pool_done(w)
  \/ pool_eall

SpecPool == InitPool /\ [][NextPool]_vars

\* every goroutine that can take a step is scheduled, and every job returns
SpecPoolFair ==
  /\ SpecPool
  /\ \A w \in 1..MaxWorkers : WF_vars(Worker(w))
  /\ WF_vars(pool_close)
  /\ WF_vars(pool_eall)

(* ============================ the branch log ============================ *)

\* the commits of a history graph; commit 1 is the newest
MaxShape == 4
\* the graphs of n commits, every commit with at most two older parents
Shapes(n) ==
  { Hist(1, ps, [c \in 1..n |-> NoFile]) :
      ps \in {x \in [1..n -> UNION {ParentOptions(c, n) : c \in 1..n}] :
                \A c \in 1..n : x[c] \in ParentOptions(c, n)} }

InitBranch ==
  /\ InitIdle
  /\ \E h \in Shapes(MaxShape) :
       \E c \in DOMAIN h.parents, ml \in SUBSET DOMAIN h.parents :
         call = [fn |-> "args", h |-> h, c |-> c, ml |-> ml, out |-> <<>>]

\* vr.logBranch(c, ml)
LogBranch ==
  /\ call.fn = "args"
  /\ call' = [call EXCEPT !.fn = "logBranch", !.out = logBranch(call.h, call.c, call.ml)]
  /\ UNCHANGED protocol

NextBranch == LogBranch

SpecBranch == InitBranch /\ [][NextBranch]_vars

(* ======================== the walks, step by step ======================= *)

Kinds == {"mainline", "logMain", "logBranch", "files"}

\* the body of a walk's loop for the commit c it received: the parents it
\* sends on snd, in order, and whether it returns an error after them
NoSend == [todo |-> <<>>, err |-> FALSE]
Failing == [todo |-> <<>>, err |-> TRUE]

\* the body of mainline's loop
mainlineBody(h, c) ==
  LET ps == h.parents[c]
      np == Len(ps)
  IN IF np = 0 THEN NoSend
     ELSE LET cv == at(h, c) IN
          IF cv.err THEN Failing
          ELSE LET sent == mainlineParents(h, Pass, ps, cv.v, np)
               IN [todo |-> sent.q.cs, err |-> sent.err]

\* the body of logMain's loop; a branch log is made by a walk of its own
logMainBody(h, c, ml) ==
  LET ps == h.parents[c]
      np == Len(ps)
  IN IF np = 0 THEN NoSend
     ELSE IF np = 1
       THEN LET cv == at(h, c)
                pv == at(h, ps[1])
            IN IF cv.err \/ pv.err THEN Failing
               ELSE IF cv.v # pv.v THEN NoSend
               ELSE [todo |-> ps, err |-> FALSE]
       ELSE [todo |-> logMainParents(h, ml, Pass, ps, <<>>).q.cs, err |-> FALSE]

\* the body of logBranch's loop
logBranchBody(h, c, ml) ==
  IF c \in ml THEN NoSend ELSE [todo |-> h.parents[c], err |-> FALSE]

\* the body of files' loop
filesBody(h, c, vbase) ==
  LET ps == h.parents[c]
      np == Len(ps)
  IN IF np = 0 THEN NoSend
     ELSE IF np = 1
       THEN LET v == at(h, c) IN
            IF v.err THEN Failing
            ELSE IF isBefore(Text(v.v), Text(vbase)) THEN NoSend
            ELSE [todo |-> ps, err |-> FALSE]
       ELSE LET sent == filesParents(h, Pass, ps, vbase)
            IN [todo |-> sent.q.cs, err |-> sent.err]

walkBody(kind, h, c, ml, vbase) ==
  IF kind = "mainline" THEN mainlineBody(h, c)
  ELSE IF kind = "logMain" THEN logMainBody(h, c, ml)
  ELSE IF kind = "logBranch" THEN logBranchBody(h, c, ml)
  ELSE filesBody(h, c, vbase)

\* where the walk stands once it has todo left to send: sending, returned
\* with the error, or back at the range over rcv
walkAt(todo, err) ==
  IF todo # <<>> THEN "snd" ELSE IF err THEN "ret" ELSE "rcv"

\* a walk of the history h from the commit c: passCommits() has started its
\* goroutine and the walk is about to send c; body holds, for each commit,
\* what the loop body does when it receives that commit
Walk(kind, h, c, ml, vbase) ==
  [fn |-> "walk", kind |-> kind, h |-> h, ml |-> ml, vbase |-> vbase,
   body |-> [x \in DOMAIN h.parents |-> walkBody(kind, h, x, ml, vbase)],
   q |-> Pass, closed |-> FALSE, t |-> "snd", todo |-> <<c>>, err |-> FALSE]

WalkHistories == Histories(MaxCommits) \cup Linear4 \cup Merged

InitWalk ==
  /\ InitIdle
  /\ \E h \in WalkHistories :
       \/ call = Walk("mainline", h, h.head, {}, NoVersion)
       \/ /\ ~mainline(h, h.head).err
          /\ call = Walk("logMain", h, h.head, mainline(h, h.head).ml, NoVersion)
       \/ \E c \in DOMAIN h.parents, ml \in SUBSET DOMAIN h.parents :
            call = Walk("logBranch", h, c, ml, NoVersion)
       \/ \E vbase \in {NoVersion, V1, V2} :
            call = Walk("files", h, h.head, {}, vbase)

InWalk == call.fn = "walk"

\* the walk after it received c, st being what its loop body does with c
walkReceived(c, st) ==
  [c EXCEPT !.q = Taken(@), !.todo = st.todo, !.err = st.err,
            !.t = walkAt(st.todo, st.err)]

\* a goroutine that closes rcv as soon as it hands over its last commit
walk_rcv_closeOnLast ==
  /\ InWalk
  /\ call.t = "rcv"
  /\ ~call.closed
  /\ IF call.q.cs = <<>>
     THEN call' = [call EXCEPT !.closed = TRUE]
     ELSE call' = [walkReceived(call, call.body[Head(call.q.cs)])
                     EXCEPT !.closed = Len(call.q.cs) = 1]
  /\ UNCHANGED protocol

\* snd <- c in the walk meets case c := <-snd of the goroutine, which is
\* there only until it has closed rcv and returned
walk_snd ==
  /\ InWalk
  /\ call.t = "snd"
  /\ ~call.closed
  /\ call' = [call EXCEPT !.q = Send(@, Head(call.todo)),
                          !.todo = Tail(@),
                          !.t = walkAt(Tail(call.todo), call.err)]
  /\ UNCHANGED protocol

\* the range over rcv meets case rcv <- c of the goroutine: on an empty queue
\* the walk gets nil and goes on to the next receive, the goroutine closes rcv
\* and returns; otherwise the walk gets cs[0] and runs its loop body
walk_rcv ==
  /\ InWalk
  /\ call.t = "rcv"
  /\ ~call.closed
  /\ IF call.q.cs = <<>>
     THEN call' = [call EXCEPT !.closed = TRUE]
     ELSE call' = walkReceived(call, call.body[Head(call.q.cs)])
  /\ UNCHANGED protocol

\* the range over rcv ends on the closed channel and the walk returns
walk_return ==
  /\ InWalk
  /\ call.t = "rcv"
  /\ call.closed
  /\ call' = [call EXCEPT !.t = "ret"]
  /\ UNCHANGED protocol

NextWalk == walk_snd \/ walk_rcv \/ walk_return

SpecWalk == InitWalk /\ [][NextWalk]_vars

\* a goroutine that can take its next step is scheduled in the end
SpecWalkFair ==
  /\ SpecWalk
  /\ WF_vars(walk_snd)
  /\ WF_vars(walk_rcv)
  /\ WF_vars(walk_return)

(* ======================= the release protocol's claims ================= *)

Done(p) == pc[p] = "done"
\* release() returned nil
Released(p) == Done(p) /\ res[p].ret = "nil" /\ res[p].kind # "nop"
\* the releases of p's tag, and the names of the assets p uploads
Own(p) == WithTag(spec[p].tag)
Named(r, name) == {i \in 1..Len(r.assets) : r.assets[i].name = name}
\* a remote release by id, as it is in the next state
KeepsId(i) == \E k \in 1..Len(releases') : releases'[k].id = releases[i].id
Next_(i) == releases'[CHOOSE k \in 1..Len(releases') : releases'[k].id = releases[i].id]

\* C1: release() run to success twice in a row with the same spec: the second
\* run issues no create, upload or edit request (so the remote is as the first
\* run left it), and the remote holds one tag ref, exactly one release of the
\* tag and each uploaded name exactly once.
C1_SecondRunIsNoOp ==
  \A p \in Procs :
    (Released(p) /\ mode[p].follows = "again") =>
      /\ reqs[p] = NoReqs
      /\ refs[spec[p].tag] # NoRef
      /\ Len(Own(p)) = 1
      /\ \A j \in 1..Len(spec[p].uploads) :
           Cardinality(Named(Own(p)[1], Dst(spec[p], j))) = 1

C3_RetryEndsAsOneRun ==
  \A p \in Procs :
    (Released(p) /\ mode[p].follows = "retry") =>
      /\ refs[spec[p].tag] # NoRef
      /\ Resolve(refs[spec[p].tag]) = Commit(spec[p].sha)
      /\ Len(Own(p)) = 1
      /\ \A j \in 1..Len(spec[p].uploads) :
           Cardinality(Named(Own(p)[1], Dst(spec[p], j))) = 1
      /\ ~spec[p].draft => ~Own(p)[1].draft

\* C4: CreateTag returns an error whenever the ref it found does not resolve
\* to the requested sha.
C4_TagConflictIsAnError ==
  \A p \in Procs :
    (loc[p].tagged /\ loc[p].ref # NoRef) =>
      Resolve(loc[p].ref) = Commit(spec[p].sha)

C6_CreatesOnlyIfAbsent ==
  \A p \in Procs : pc[p] = "CreateRelease" => loc[p].seen = <<>>

\* C7: PublishRelease returns an error if no release with the tag exists,
\* returns nil without an edit if the release is not a draft, and edits that
\* release if it is a draft.
C7_PublishByState ==
  \A p \in Procs :
    LET seen == loc[p].seen IN
    loc[p].pub # "" =>
      /\ seen = <<>> => loc[p].pub = "not found"
      /\ (seen # <<>> /\ ~seen[1].draft) => loc[p].pub = "nil"
      /\ (seen # <<>> /\ seen[1].draft) =>
           (loc[p].pub = "edit" /\ loc[p].e.id = seen[1].id)

\* C8: an invocation whose spec requests draft issues no edit request; no
\* step turns a published release into a draft or removes a release; and a
\* draft is published only by the edit of an invocation without the draft
\* option.
C8_DraftStaysDraft ==
  [][ /\ \A p \in Procs : spec'[p].draft => reqs'[p].edit = 0
      /\ \A i \in 1..Len(releases) :
           /\ KeepsId(i)
           /\ ~releases[i].draft => ~Next_(i).draft
           /\ (releases[i].draft /\ ~Next_(i).draft) =>
                \E p \in Procs : /\ pc[p] = "EditRelease"
                                 /\ ~spec[p].draft
                                 /\ reqs'[p].edit = reqs[p].edit + 1 ]_vars

C8_Witness ==
  \E p \in Procs :
    /\ Released(p) /\ spec[p].draft /\ reqs[p].rel = 1
    /\ Len(Own(p)) = 1 /\ Own(p)[1].draft

\* C9: release() returns nil, and reaches the publish step, only after the
\* tag step and the draft-release step succeeded and every upload job ran and
\* returned no error; no release is created after a tag failure, no upload
\* runs after a draft-release failure, and when an upload fails every other
\* queued upload has run and no edit request is issued.
C9_StepsInOrder ==
  \A p \in Procs :
    LET outs == pool[p].outs
        allNil == \A j \in 1..Len(outs) : outs[j].ran /\ outs[j].err = "nil"
        anyRan == \E j \in 1..Len(outs) : outs[j].ran
    IN /\ (Released(p) \/ pc[p] \in {"PublishRelease", "EditRelease"}
            \/ reqs[p].edit > 0)
          => (loc[p].tagged /\ loc[p].r # NoRelease /\ allNil)
       /\ (reqs[p].rel > 0 \/ loc[p].r # NoRelease) => loc[p].tagged
       /\ (anyRan \/ reqs[p].upl > 0) => (loc[p].tagged /\ loc[p].r # NoRelease)
       /\ (Done(p) /\ res[p].step = "tag") => (reqs[p].rel = 0 /\ ~anyRan)
       /\ (Done(p) /\ res[p].step = "draft release") => (reqs[p].upl = 0 /\ ~anyRan)
       /\ (Done(p) /\ res[p].step = "uploads")
          => /\ \A j \in 1..Len(outs) : outs[j].ran
             /\ reqs[p].edit = 0

C9_Witness ==
  \E p \in Procs : \E j, k \in 1..Len(pool[p].outs) :
    /\ Done(p) /\ res[p].step = "uploads"
    /\ pool[p].outs[j].err = "nil" /\ pool[p].outs[j].sent = 1
    /\ pool[p].outs[k].err \notin {"nil", ""}

\* C10: push on a HEAD that is not a release commit returns nil without
\* creating a client and without any remote request.
C10_PushNopOffRelease ==
  \A p \in Procs :
    (cl[p].cmd = "push" /\ ~isRelease(cl[p].hist).err /\ ~isRelease(cl[p].hist).ok) =>
      /\ ~Running(p)
      /\ res[p].ret = "nil"
      /\ ~loc[p].client
      /\ reqs[p] = NoReqs

C10_Witness ==
  \E p \in Procs :
    /\ Done(p) /\ cl[p].cmd = "push" /\ Len(cl[p].hist.parents[cl[p].hist.head]) = 2
    /\ refs[TagT] = NoRef /\ releases = <<>>

(* ========================= the version's claims ======================== *)

\* the number a run of digits spells, 0 for the empty run
RECURSIVE Num(_, _)
Num(s, acc) == IF s = <<>> THEN acc ELSE Num(Tail(s), 10 * acc + DigitVal(Head(s)))
\* the (major, minor, patch) of a string: its first match's components, a
\* missing component and a string without a match read as 0
Triple(s) ==
  LET f == FindVersion(s)
  IN IF f.found THEN [k \in 1..3 |-> Num(f.ms[k], 0)] ELSE [k \in 1..3 |-> 0]
LexLess(a, b) ==
  \/ a[1] < b[1]
  \/ a[1] = b[1] /\ a[2] < b[2]
  \/ a[1] = b[1] /\ a[2] = b[2] /\ a[3] < b[3]
Before(s) == IF FindVersion(s).found THEN SubSeq(s, 1, FindVersion(s).lo - 1) ELSE s
After(s) == IF FindVersion(s).found THEN SubSeq(s, FindVersion(s).hi + 1, Len(s)) ELSE <<>>

\* C17: for a version string V that holds a match of the pattern and an
\* increment C, V.isBefore(V.bump(C)).
C17_BumpIsLater ==
  (call.fn = "bump" /\ FindVersion(call.v).found) => isBefore(call.v, call.out)

\* C18: bump(C) adds one to component C, zeroes the components to its right,
\* keeps the value of those to its left and the text around the match, and
\* returns three numeric components; bump("v1.2.3", minor) = "v1.3.0".
C18_BumpComponents ==
  call.fn = "bump" =>
    LET f == FindVersion(call.v)
        g == FindVersion(call.out)
        a == Triple(call.v)
        b == Triple(call.out)
    IN /\ g.found /\ \A k \in 1..3 : g.ms[k] # <<>>
       /\ \A k \in 1..3 :
            b[k] = IF k < call.incr THEN a[k] ELSE IF k = call.incr THEN a[k] + 1 ELSE 0
       /\ f.found => (Before(call.out) = Before(call.v) /\ After(call.out) = After(call.v))
       /\ (call.v = v123 /\ call.incr = minor) =>
            call.out = <<"v", "1", ".", "3", ".", "0">>

IntTriple(s) == [k \in 1..3 |-> IF Triple(s)[k] > MaxInt THEN MaxInt ELSE Triple(s)[k]]
Parents(h, c) == h.parents[c]
\* the version file's first line at a commit, "" for an absent file
Line(h, c) == IF h.file[c].present THEN h.file[c].line ELSE NoVersion
\* the version file is absent or its first line holds a number
Readable(h, c) == h.file[c].present => h.file[c].line.nums # <<>>

\* C11: isRelease() is true exactly when HEAD has no parent, or HEAD has one
\* parent and the version at HEAD differs from the version at that parent; for
\* a HEAD with two or more parents it is always false. (The versions of HEAD
\* and its parent are read only for a one-parent HEAD; an unreadable one is an
\* error and not a release.)
C11_IsReleaseByParents ==
  call.fn = "isRelease" =>
    LET h == call.r.hist
        n == Len(Parents(h, h.head))
    IN /\ n = 0 => (call.out.ok /\ ~call.out.err)
       /\ n >= 2 => (~call.out.ok /\ ~call.out.err)
       /\ n = 1 =>
            (LET p == Parents(h, h.head)[1]
             IN /\ call.out.err = ~(Readable(h, h.head) /\ Readable(h, p))
                /\ call.out.ok = (~call.out.err /\ Line(h, h.head) # Line(h, p)))
\* a merge commit that changes the version of both its parents
C11_Witness ==
  /\ call.fn = "isRelease" /\ ~call.out.ok /\ ~call.out.err
  /\ LET h == call.r.hist IN
     /\ Len(Parents(h, h.head)) = 2
     /\ \A k \in 1..2 : Readable(h, Parents(h, h.head)[k])
                        /\ Line(h, Parents(h, h.head)[k]) # Line(h, h.head)

\* every commit of the history has at most one parent
Linear(h) == \A c \in DOMAIN h.parents : Len(h.parents[c]) <= 1
\* the messages from commit c backwards while the version equals the parent's
RECURSIVE Unreleased(_, _)
Unreleased(h, c) ==
  IF Parents(h, c) = <<>> THEN <<Message(c)>>
  ELSE IF Line(h, c) = Line(h, Parents(h, c)[1])
    THEN <<Message(c)>> \o Unreleased(h, Parents(h, c)[1])
    ELSE <<>>

\* C12: on a history whose commits have at most one parent, the log from HEAD
\* holds, HEAD first, the messages of the commits from HEAD backwards while
\* each commit's version equals its parent's, and the root's message if the
\* root is reached; the first commit whose version differs from its parent's
\* and every older commit are left out, so the log of a HEAD that is a release
\* commit with a parent is empty. (A log that ended in an error of reading a
\* version file is not a log.)
C12_LinearLogStopsAtRelease ==
  (call.fn = "logHead" /\ Linear(call.r.hist) /\ ~call.out.err) =>
    LET h == call.r.hist IN
    /\ call.out.msgs = Unreleased(h, h.head)
    /\ (Parents(h, h.head) # <<>> /\ Line(h, h.head) # Line(h, Parents(h, h.head)[1]))
         => call.out.msgs = <<>>
\* a log of two commits that stops at a release commit which has a parent
C12_Witness ==
  /\ call.fn = "logHead" /\ Linear(call.r.hist) /\ ~call.out.err
  /\ call.out.msgs = <<Message(1), Message(2)>>
  /\ Parents(call.r.hist, 3) = <<4>>
  /\ Line(call.r.hist, 3) # Line(call.r.hist, 4)

\* the history root (5) -> A (4) -> B (2) -> C (1), where C carries v2 and
\* merges B and the side commit D (3), and A, B and D carry v1
IsMerged(h) ==
  /\ DOMAIN h.parents = 1..5 /\ h.head = 1
  /\ h.parents[1] \in {<<2, 3>>, <<3, 2>>}
  /\ h.parents[2] = <<4>> /\ h.parents[4] = <<5>> /\ h.parents[5] = <<>>
  /\ Line(h, 1) = V2 /\ \A c \in {2, 3, 4} : Line(h, c) = V1
Holds(msgs, c) == \E i \in 1..Len(msgs) : msgs[i] = Message(c)

\* C13: on the history root -> A(v1) -> B(v1) -> C(v2), C merging B and
\* D(v1), the log at C holds the messages of C, B and D and not the message
\* of A.
C13_MergeLogLeavesOutA ==
  (call.fn = "logHead" /\ IsMerged(call.r.hist)) =>
    /\ ~call.out.err
    /\ Holds(call.out.msgs, 1) /\ Holds(call.out.msgs, 2) /\ Holds(call.out.msgs, 3)
    /\ ~Holds(call.out.msgs, 4)

\* version v is before version u
Older(v, u) == LexLess(Triple(Text(v)), Triple(Text(u)))
\* the commits reachable from c
RECURSIVE Back(_, _)
Back(h, c) ==
  {c} \cup UNION {Back(h, Parents(h, c)[k]) : k \in 1..Len(Parents(h, c))}
\* from older to newer commits the version never decreases
NeverDecreases(h) ==
  \A c \in Back(h, h.head) :
    Parents(h, c) # <<>> => ~Older(Line(h, c), Line(h, Parents(h, c)[1]))
\* the parent's version if HEAD is a release commit, HEAD's own otherwise
Baseline(h) ==
  IF Line(h, h.head) # Line(h, Parents(h, h.head)[1])
    THEN Line(h, Parents(h, h.head)[1]) ELSE Line(h, h.head)
\* the oldest commit of the run back from c of versions not before base
RECURSIVE RunBack(_, _, _)
RunBack(h, c, base) ==
  IF Parents(h, c) # <<>> /\ ~Older(Line(h, Parents(h, c)[1]), base)
    THEN RunBack(h, Parents(h, c)[1], base) ELSE c

\* C14: on a history whose commits have at most one parent, whose versions
\* never decrease from older to newer commits and whose HEAD has a parent,
\* files() diffs HEAD against the oldest commit of the run back from HEAD of
\* versions not before the baseline: the commit that introduced the baseline.
C14_FilesSinceLastRelease ==
  ( /\ call.fn = "files" /\ ~call.out.err
    /\ Linear(call.r.hist) /\ NeverDecreases(call.r.hist)
    /\ Parents(call.r.hist, call.r.hist.head) # <<>> ) =>
    LET h == call.r.hist
        since == RunBack(h, h.head, Baseline(h))
    IN /\ call.out.cmt = since
       /\ call.out.fs = putAll({}, Diff(Tree(call.r, h.head), Tree(call.r, since)))

\* HEAD is the only commit of the repository
Single(r) == DOMAIN r.hist.parents = {r.hist.head}

\* C15: in a repository whose HEAD is its only commit, files() never returns
\* files: it returns the empty set or an error, and the same on every call.
C15_NoFilesOfSingleCommit ==
  /\ []((call.fn = "files" /\ Single(call.r)) => call.out.fs = {})
  /\ [][(call.fn = "files" /\ call'.fn = "files" /\ Single(call.r))
          => call'.out = call.out]_vars
\* files() was called on a lone commit that has a version file and other files
C15_Witness ==
  /\ call.fn = "files" /\ Single(call.r) /\ call.out.fs = {}
  /\ call.r.hist.file[1].present
  /\ call.r.tree[1] # {}

\* the paths of the entries that one of two trees has and the other has not
Changed(a, b) == {e.path : e \in (a \ b) \cup (b \ a)}
\* a path's proper ancestor directories, "." left out
Ancestors(path) == {SubSeq(path, 1, k) : k \in 1..(Len(path) - 1)}

\* C16: the set files() returns holds every from-path and to-path of the diff
\* between HEAD and the boundary commit and every proper ancestor directory of
\* each (other than "." and "/"), and nothing else.
C16_FilesAndTheirDirectories ==
  (call.fn = "files" /\ ~call.out.err) =>
    LET diff == Changed(Tree(call.r, call.r.hist.head), Tree(call.r, call.out.cmt))
    IN /\ call.out.fs = diff \cup UNION {Ancestors(n) : n \in diff}
       /\ \A n \in call.out.fs : Ancestors(n) \subseteq call.out.fs
       /\ Dot \notin call.out.fs /\ <<"/">> \notin call.out.fs /\ <<>> \notin call.out.fs
\* a file two directories deep was changed and a top-level file removed
C16_Witness ==
  /\ call.fn = "files" /\ ~call.out.err
  /\ {<<"a", "b", "x">>, <<"a", "b">>, <<"a">>, <<"c">>} \subseteq call.out.fs
  /\ <<"c">> \notin Names(Tree(call.r, call.r.hist.head))
  /\ <<"a", "b", "x">> \in Names(Tree(call.r, call.r.hist.head))

(* ====================== the bump subcommand's claims =================== *)

\* sequence s is the tail of sequence f
IsTail(s, f) == Len(s) <= Len(f) /\ SubSeq(f, Len(f) - Len(s) + 1, Len(f)) = s

\* C20: whenever bump writes the version file (-w), the content the version
\* file has in the HEAD commit is the tail of the written file, for every
\* combination of the flags.
C20_CommittedContentKept ==
  (call.fn = "bumpCmd" /\ call.out.wrote) =>
    IsTail(lastLog(call.h, call.body), call.out.file)

(* ========================= the mainline's claims ======================= *)

\* every version file whose commit mainline reads could be read
AllReadable(h) == \A c \in Back(h, h.head) : Readable(h, c)

\* C23: on a linear history of N commits (at most one parent each, wherever
\* the version changes) mainline(head) is the set of exactly the N commits.
C23_LinearMainlineIsAll ==
  (call.fn = "mainline" /\ Linear(call.r.hist) /\ AllReadable(call.r.hist)) =>
    /\ ~call.out.err
    /\ call.out.ml = Back(call.r.hist, call.r.hist.head)
\* a chain of four commits with two version changes, all four in the mainline
C23_Witness ==
  /\ call.fn = "mainline" /\ call.out.ml = {1, 2, 3, 4}
  /\ Linear(call.r.hist)
  /\ Line(call.r.hist, 1) # Line(call.r.hist, 2)
  /\ Line(call.r.hist, 3) # Line(call.r.hist, 4)

\* the commits that continue the mainline from the commits of s: the parent
\* of a one-parent commit, the parents of a merge that carry its version
Continue(h, s) ==
  s \cup { p \in DOMAIN h.parents :
             \E c \in s : \E k \in 1..Len(Parents(h, c)) :
               /\ Parents(h, c)[k] = p
               /\ Len(Parents(h, c)) > 1 => Line(h, p) = Line(h, c) }
RECURSIVE Closure(_, _)
Closure(h, s) == IF Continue(h, s) = s THEN s ELSE Closure(h, Continue(h, s))

\* C24: at a merge commit mainline enqueues a parent exactly when the parent's
\* version equals the merge's: a parent with another version is not marked
\* mainline through that merge, a parent with the same version is, and so are
\* its one-parent ancestors.
C24_MergeParentsByVersion ==
  (call.fn = "mainline" /\ ~call.out.err) =>
    LET h == call.r.hist IN
    /\ call.out.ml = Closure(h, {h.head})
    /\ \A c \in call.out.ml : Len(Parents(h, c)) > 1 =>
         \A k \in 1..Len(Parents(h, c)) :
           LET p == Parents(h, c)[k] IN
           /\ Line(h, p) = Line(h, c) => p \in call.out.ml
           /\ (Line(h, p) # Line(h, c) /\ p \in call.out.ml) =>
                \E d \in call.out.ml \ {c} : \E j \in 1..Len(Parents(h, d)) :
                  /\ Parents(h, d)[j] = p
                  /\ Len(Parents(h, d)) > 1 => Line(h, p) = Line(h, d)
\* a merge whose first parent carries another version and whose second parent
\* carries the merge's: the second parent and its ancestors are mainline, the
\* first parent is not
C24_Witness ==
  /\ call.fn = "mainline" /\ ~call.out.err
  /\ Parents(call.r.hist, 1) = <<2, 3>>
  /\ Parents(call.r.hist, 3) = <<4>>
  /\ Line(call.r.hist, 2) # Line(call.r.hist, 1)
  /\ Line(call.r.hist, 3) = Line(call.r.hist, 1)
  /\ call.out.ml = {1, 3, 4, 5}

\* C21: with HEAD unchanged, a second run of bump -w leaves the version file
\* as the first run wrote it: what bump writes is read from the HEAD commit
\* and never from the working file.
C21_BumpTwiceIsBumpOnce ==
  [][(call.fn = "bumpCmd" /\ call'.fn = "bumpCmd" /\ call.w)
       => (call'.work = call.work /\ call'.out = call.out)]_vars
\* the second run wrote, over what the first run had written in place of
\* uncommitted lines, the log and the committed content
C21_Witness ==
  /\ call.fn = "bumpCmd" /\ call.runs = 2 /\ call.out.wrote
  /\ ~call.n /\ ~call.latest.given
  /\ call.body # <<>> /\ Len(call.out.file) > 4
  /\ call.work = call.out.file

(* ==================== concurrent first-time releases ================== *)

\* both invocations saw no release of the tag and issued a create-release
\* request
BothCreateRelease ==
  \A p \in Procs : Running(p) /\ loc[p].seen = <<>> /\ reqs[p].rel >= 1
\* both invocations issued a create-ref request
BothCreateRef == \A p \in Procs : reqs[p].ref >= 1
\* the tag did not exist when the invocations started: one of them created it
FirstTime == \E p \in Procs : reqs[p].ref >= 1 /\ loc[p].tagged

\* C28 as stated: the interleaving in which two first-time invocations both
\* see no release of the tag and both issue a create-release request is one
\* in which both issue a create-ref request as well.
C28_BothCreateEverything ==
  (BothCreateRelease /\ FirstTime) => BothCreateRef

\* C28, amended: two first-time invocations can both see no release of the tag
\* and both issue a create-release request, but then only one of them issued
\* a create-ref request (the other found the ref); when both issue a
\* create-ref request, one of them issues no create-release request.
C28_ChecksDoNotExcludeDuplicates ==
  /\ (BothCreateRelease /\ FirstTime) => Cardinality({p \in Procs : reqs[p].ref >= 1}) = 1
  /\ BothCreateRef => \E p \in Procs : reqs[p].rel = 0
\* both invocations created a release of the tag that one of them created
C28_Witness ==
  /\ BothCreateRelease /\ FirstTime
  /\ Len(WithTag(TagT)) = 2
  /\ \A p \in Procs : spec[p].tag = TagT /\ loc[p].r.tag = TagT
  /\ loc["p1"].r.id # loc["p2"].r.id

(* ======================= the commit buffer's claims ==================== *)

InPass == call.fn = "passCommits"
\* the commits of the events of one kind, in order
RECURSIVE Of(_, _)
Of(log, op) ==
  IF log = <<>> THEN <<>>
  ELSE (IF Head(log).op = op THEN <<Head(log).c>> ELSE <<>>) \o Of(Tail(log), op)
Pushed(log) == Of(log, "snd")
Delivered(log) == Of(log, "rcv")
Elems(s) == {s[i] : i \in DOMAIN s}
\* a sequence without the repetitions of an element and without nil
RECURSIVE Firsts(_, _)
Firsts(s, had) ==
  IF s = <<>> THEN <<>>
  ELSE IF Head(s) \in had \cup {NilCommit} THEN Firsts(Tail(s), had)
  ELSE <<Head(s)>> \o Firsts(Tail(s), had \cup {Head(s)})
IsPrefixOf(s, f) == Len(s) <= Len(f) /\ SubSeq(f, 1, Len(s)) = s
\* the step is a send of a hash that was sent before
Resend ==
  /\ InPass /\ Len(call'.log) = Len(call.log) + 1
  /\ call'.log[Len(call'.log)].op = "snd"
  /\ call'.log[Len(call'.log)].c \in Elems(Pushed(call.log))

\* C25: whatever the sends and receives, no hash is delivered twice, every
\* commit delivered was sent before, and sending a hash that was sent before
\* changes neither the queue nor what is delivered.
C25_DeliveredOnce ==
  /\ [](InPass =>
         LET d == Delivered(call.log) IN
         /\ \A i, j \in DOMAIN d : (d[i] # NilCommit /\ d[i] = d[j]) => i = j
         /\ \A i \in DOMAIN call.log :
              (call.log[i].op = "rcv" /\ call.log[i].c # NilCommit)
                => call.log[i].c \in Elems(Pushed(SubSeq(call.log, 1, i - 1))))
  /\ [][Resend => (call'.q = call.q /\ call'.closed = call.closed
                   /\ Delivered(call'.log) = Delivered(call.log))]_vars
\* a hash is sent twice, before and after it was delivered, and another after
C25_Witness ==
  /\ InPass
  /\ Len(call.log) = 6
  /\ call.log[1] = [op |-> "snd", c |-> 1]
  /\ call.log[2] = [op |-> "snd", c |-> 1]
  /\ call.log[3] = [op |-> "rcv", c |-> 1]
  /\ call.log[4] = [op |-> "snd", c |-> 1]
  /\ call.log[5] = [op |-> "snd", c |-> 2]
  /\ call.log[6] = [op |-> "rcv", c |-> 2]

\* C26: the commits are delivered in the order in which they were first sent,
\* however sends and receives alternate: the commits delivered followed by the
\* queue are the first sends, in order.
C26_FirstSentFirstDelivered ==
  InPass =>
    /\ IsPrefixOf(Firsts(Delivered(call.log), {}), Firsts(Pushed(call.log), {}))
    /\ Firsts(Delivered(call.log), {}) \o call.q.cs = Firsts(Pushed(call.log), {})
\* sends between the receives, one of them a repetition
C26_Witness ==
  /\ InPass
  /\ Pushed(call.log) = <<2, 3, 2, 1>>
  /\ Delivered(call.log) = <<2, 3>>
  /\ call.log[2].op = "rcv"
  /\ call.q.cs = <<1>>

\* C27: the sequence ends only when a receive finds the queue empty: that
\* receive delivers nil, nil is delivered once and last, the channel is closed
\* from then on, and every commit sent before has been delivered before the
\* nil.
C27_EndsOnEmptyReceive ==
  /\ [](InPass =>
         /\ call.closed <=> NilCommit \in Elems(Delivered(call.log))
         /\ \A i \in DOMAIN call.log :
              call.log[i].c = NilCommit => (i = Len(call.log) /\ call.log[i].op = "rcv")
         /\ call.closed =>
              Firsts(Delivered(call.log), {}) = Firsts(Pushed(call.log), {}))
  /\ [][(InPass /\ ~call.closed /\ call'.closed) =>
          (call.q.cs = <<>> /\ call'.log = Append(call.log, [op |-> "rcv", c |-> NilCommit]))]_vars
  /\ [][(InPass /\ call.closed) => call' = call]_vars
\* a commit sent after the queue was drained is delivered before the nil
C27_Witness ==
  /\ InPass
  /\ call.closed
  /\ call.log = << [op |-> "snd", c |-> 1], [op |-> "rcv", c |-> 1],
                   [op |-> "snd", c |-> 2], [op |-> "snd", c |-> 1],
                   [op |-> "rcv", c |-> 2], [op |-> "rcv", c |-> NilCommit] >>

(* ======================== the worker pool's claims ===================== *)

Failed == {j \in Jobs : call.fails[j]}
Returned == InPool /\ call.m = "return"
Executing == {w \in Wkrs : call.wk[w].pc = "upload"}

\* C22: with at least one worker, wait() returns a list with exactly one entry
\* for each job that failed and none for a job that succeeded, however the
\* workers and the aggregator interleave.
C22_OneEntryPerFailedJob ==
  (Returned /\ call.W >= 1) =>
    /\ Elems(call.ret) = Failed
    /\ Len(call.ret) = Cardinality(Failed)
    /\ Len(call.fails) - Len(call.ret) = Cardinality(Jobs \ Failed)
\* three jobs on two workers, the first and the last failed, reported in the
\* other order
C22_Witness ==
  /\ Returned
  /\ call.W = 2
  /\ call.fails = <<TRUE, FALSE, TRUE>>
  /\ call.ret = <<3, 1>>

\* C29: at every moment at most W jobs are being executed, each by one
\* worker; a job accepted by queue() is started once, by one worker, finished
\* at most once, and exactly once when wait() has returned.
C29_EachJobOnceByOneWorker ==
  InPool =>
    /\ Cardinality(Executing) <= call.W
    /\ \A w, x \in Executing : call.wk[w].job = call.wk[x].job => w = x
    /\ \A j \in Jobs :
         /\ j <= call.k <=> call.by[j] # {}
         /\ Cardinality(call.by[j]) <= 1
         /\ call.fin[j] <= 1
         /\ call.fin[j] = 1 => call.by[j] # {}
         /\ (Returned /\ j <= call.k) => call.fin[j] = 1
\* all the workers are executing a job each
C29_Witness ==
  /\ InPool
  /\ call.W = 2
  /\ Cardinality(Executing) = 2
  /\ call.k = 2 /\ Len(call.fails) = 3

\* C30: with at least one worker, every queue() returns and wait() returns,
\* and wait() has returned only after every queued job finished and all the
\* workers signalled done.
C30_QueueAndWaitReturn ==
  /\ (InPool /\ call.W >= 1) ~> (Returned /\ call.k = Len(call.fails))
  /\ [](Returned =>
          /\ \A j \in Jobs : call.fin[j] >= 1
          /\ call.i = call.W
          /\ \A w \in Wkrs : call.wk[w].pc = "exit")
\* wait() returned after three jobs on two workers
C30_Witness ==
  /\ Returned
  /\ call.W = 2 /\ call.k = 3 /\ call.i = 2
  /\ \A j \in Jobs : call.fin[j] = 1

(* ========================== the merge log's claims ===================== *)

\* the parents of c outside ml, in parent order
OffMainline(h, c, ml) == SelectSeq(Parents(h, c), LAMBDA p : p \notin ml)
\* the branch logs of the commits of ps, one after the other
RECURSIVE BranchLogs(_, _, _)
BranchLogs(h, ps, ml) ==
  IF ps = <<>> THEN <<>>
  ELSE logBranch(h, Head(ps), ml) \o BranchLogs(h, Tail(ps), ml)
\* HEAD is a merge and logHead() returned a log
MergeLog ==
  /\ call.fn = "logHead" /\ ~call.out.err
  /\ Len(Parents(call.r.hist, call.r.hist.head)) >= 2

\* C31: at a merge, logMain appends the merge's message first, then, in
\* parent order, the whole branch log of each parent outside the mainline set,
\* while a parent in the mainline set is only sent: the messages of the
\* mainline commits received after the merge follow the branch logs.
C31_BranchLogsSplicedAtMerge ==
  MergeLog =>
    LET h == call.r.hist
        ml == mainline(h, h.head).ml
        spliced == BranchLogs(h, OffMainline(h, h.head, ml), ml)
        msgs == call.out.msgs
    IN /\ msgs # <<>> /\ msgs[1] = Message(h.head)
       /\ Len(msgs) >= 1 + Len(spliced)
       /\ SubSeq(msgs, 2, 1 + Len(spliced)) = spliced
       /\ \A i \in (2 + Len(spliced))..Len(msgs) :
            \E c \in ml \ {h.head} : msgs[i] = Message(c)
\* the merge's first parent is on the mainline and its second is not: the log
\* is the merge, the second parent's branch, then the first parent
C31_Witness ==
  /\ MergeLog
  /\ call.r.hist.parents = <<(<<2, 3>>), <<>>, <<>>>>
  /\ mainline(call.r.hist, 1).ml = {1, 2}
  /\ call.out.msgs = <<Message(1), Message(3), Message(2)>>

(* ========================= the branch log's claims ===================== *)

\* the commits reached from c within k parent edges without entering or
\* passing a commit of ml
RECURSIVE Within(_, _, _, _)
Within(h, c, ml, k) ==
  IF c \in ml THEN {}
  ELSE IF k = 0 THEN {c}
  ELSE {c} \cup UNION {Within(h, Parents(h, c)[i], ml, k - 1) : i \in 1..Len(Parents(h, c))}
Outside(h, c, ml) == Within(h, c, ml, Cardinality(DOMAIN h.parents))
\* the number of edges of a shortest such path to x
Depth(h, c, ml, x) ==
  CHOOSE k \in 0..Cardinality(DOMAIN h.parents) :
    /\ x \in Within(h, c, ml, k)
    /\ \A j \in 0..(k - 1) : x \notin Within(h, c, ml, j)

\* C32: logBranch(c, ml) returns the messages of exactly the commits reached
\* from c along parent edges through commits outside ml only (roots outside
\* ml included, commits of ml left out and not walked through), each once, a
\* commit nearer to c never after a farther one.
C32_BranchLogIsBreadthFirst ==
  call.fn = "logBranch" =>
    LET out == call.out
        reach == Outside(call.h, call.c, call.ml)
    IN /\ Elems(out) = {Message(x) : x \in reach}
       /\ Len(out) = Cardinality(reach)
       /\ \A i, j \in DOMAIN out :
            i < j => Depth(call.h, call.c, call.ml, out[i][2])
                       <= Depth(call.h, call.c, call.ml, out[j][2])
\* a diamond above a mainline commit: 1 has the parents 2 and 3, both have
\* the parent 4, which is on the mainline
C32_Witness ==
  /\ call.fn = "logBranch"
  /\ call.c = 1 /\ call.ml = {4}
  /\ call.h.parents = <<(<<3, 2>>), <<4>>, <<4>>, <<>>>>
  /\ call.out = <<Message(1), Message(3), Message(2)>>

(* ======================== the boundary commit's claims ================= *)

\* files() returned the files between HEAD and a boundary commit
FilesDone == call.fn = "files" /\ ~call.out.err
\* the commits files() received
Passed == filesPassed(call.r.hist, Send(Pass, call.r.hist.head), filesBase(call.r.hist), <<>>)
\* a commit with one parent whose version is strictly older than the baseline
OlderSingle(h, c) ==
  /\ Len(Parents(h, c)) = 1
  /\ Older(Line(h, c), filesBase(h))
\* commit y sends its parent x
Expands(h, y, x) ==
  /\ \E i \in 1..Len(Parents(h, y)) : Parents(h, y)[i] = x
  /\ ~OlderSingle(h, y)
  /\ Len(Parents(h, y)) >= 2 => ~Older(Line(h, x), filesBase(h))

\* C33 as stated: the commit files() diffs HEAD against is the last commit
\* its loop received.
C33_BoundaryIsLastPassed ==
  FilesDone => call.out.cmt = Passed[Len(Passed)]

\* C33, amended: a one-parent commit whose version is strictly older than the
\* baseline is neither expanded nor kept; every other commit received is kept,
\* so the commit diffed against HEAD is the last commit received that is not
\* such a commit.
C33_BoundaryIsLastKept ==
  FilesDone =>
    LET h == call.r.hist
        kept == SelectSeq(Passed, LAMBDA c : ~OlderSingle(h, c))
    IN /\ kept # <<>> /\ call.out.cmt = kept[Len(kept)]
       /\ \A i \in 2..Len(Passed) : \E j \in 1..(i - 1) : Expands(h, Passed[j], Passed[i])
       /\ \A j \in 1..Len(Passed) : \A x \in DOMAIN h.parents :
            Expands(h, Passed[j], x) => x \in Elems(Passed)
\* a chain of four commits of the versions 2, 2, 1 and 1: the third is the
\* last commit received, the second is the boundary
C33_Witness ==
  /\ FilesDone
  /\ call.r.hist.parents = <<(<<2>>), <<3>>, <<4>>, <<>>>>
  /\ Line(call.r.hist, 1) = V2 /\ Line(call.r.hist, 3) = V1
  /\ Passed = <<1, 2, 3>>
  /\ call.out.cmt = 2

\* C37: whenever files() succeeds, the version of the commit it diffs HEAD
\* against is not strictly before the baseline version.
C37_BoundaryNotBeforeBaseline ==
  FilesDone =>
    ~Older(Line(call.r.hist, call.out.cmt), filesBase(call.r.hist))

\* C38: files() ends with "cant get commits. missing VERSION?" exactly when
\* HEAD has one parent and a version strictly before its parent's version
\* (both version files being readable); it does not when no commit of a
\* history of several commits has a version file.
C38_NoBoundaryOnlyForOlderHead ==
  call.fn = "files" =>
    LET h == call.r.hist
        ps == Parents(h, h.head)
    IN /\ call.out.nocmt <=>
            /\ Len(ps) = 1
            /\ Readable(h, h.head) /\ Readable(h, ps[1])
            /\ Line(h, h.head) # Line(h, ps[1])
            /\ Older(Line(h, h.head), Line(h, ps[1]))
       /\ (ps # <<>> /\ \A c \in DOMAIN h.parents : ~h.file[c].present)
            => ~call.out.nocmt
\* HEAD of version 1 on a parent of version 2
C38_Witness ==
  /\ call.fn = "files" /\ call.out.nocmt
  /\ Len(Parents(call.r.hist, 1)) = 1
  /\ Line(call.r.hist, 1) = V1
  /\ Line(call.r.hist, Parents(call.r.hist, 1)[1]) = V2
\* no version file in a chain of three commits: files() succeeds
FilesWithoutVersionFile ==
  /\ call.fn = "files" /\ ~call.out.err
  /\ call.r.hist.parents = <<(<<2>>), <<3>>, <<>>>>
  /\ \A c \in 1..3 : ~call.r.hist.file[c].present

(* ===================== the log's claims on every history =============== *)

\* C36: the log returned by logHead holds the message of each commit at most
\* once.
C36_EachMessageOnce ==
  (call.fn = "logHead" /\ ~call.out.err) =>
    \A i, j \in DOMAIN call.out.msgs :
      call.out.msgs[i] = call.out.msgs[j] => i = j


\* how often the message of commit x occurs in msgs
Occurs(msgs, x) == Cardinality({i \in DOMAIN msgs : msgs[i] = Message(x)})
\* the branch logs spliced into msgs that reach x: one for each parent outside
\* ml of a merge of the log from which x is reached outside ml
Splices(h, ml, msgs, x) ==
  { <<c, i>> \in (DOMAIN h.parents) \X (1..2) :
      /\ Len(Parents(h, c)) >= 2 /\ c \in ml /\ Occurs(msgs, c) > 0
      /\ i <= Len(Parents(h, c))
      /\ Parents(h, c)[i] \notin ml
      /\ x \in Outside(h, Parents(h, c)[i], ml) }

\* C36, amended: the log holds the message of a commit of the mainline set at
\* most once, and the message of any other commit once for each branch log
\* that reaches it: twice when two parents of merges outside the mainline set
\* share it as an ancestor.
C36_OncePerBranchLog ==
  (call.fn = "logHead" /\ ~call.out.err) =>
    LET h == call.r.hist
        ml == mainline(h, h.head).ml
    IN \A x \in DOMAIN h.parents :
         IF x \in ml THEN Occurs(call.out.msgs, x) <= 1
         ELSE Occurs(call.out.msgs, x) = Cardinality(Splices(h, ml, call.out.msgs, x))
\* B (2) and D (3) are the parents of the merge C (1) and have another
\* version, A (4) is the parent of both: the log holds A's message twice
C36_Witness ==
  /\ call.fn = "logHead" /\ ~call.out.err
  /\ IsMerged(call.r.hist)
  /\ call.r.hist.parents[3] = <<4>>
  /\ Occurs(call.out.msgs, 4) = 2
  /\ Occurs(call.out.msgs, 1) = 1

(* ============================ the upload's claims ====================== *)

\* C35: an upload request is never issued for a name that the remote release
\* holds at the moment of the request, whichever jobs and invocations run.
C35_NoRequestForHeldName ==
  [][\A p \in Procs : \A j \in DOMAIN pool[p].outs \cap DOMAIN pool'[p].outs :
       ( /\ pc[p] = "upload"
         /\ ~pool[p].outs[j].ran /\ pool'[p].outs[j].ran
         /\ pool'[p].outs[j].sent = 1 )
       => FirstNamed(RemoteRelease(loc[p].r.id).assets, Dst(spec[p], j)) = 0]_vars

(* ===================== the pool without workers' claims ================ *)

\* C39: a pool created with a worker count of 0 starts no worker, and with at
\* least one job the first queue() never returns: the caller stays in its
\* first send on ulc and neither wait() nor the caller returns.
C39_NoWorkerBlocksQueue ==
  /\ [](InPool /\ call.W <= 0 => Wkrs = {})
  /\ []((InPool /\ call.W <= 0 /\ Len(call.fails) >= 1) =>
          /\ call.m = "queue" /\ call.k = 0
          /\ ~call.closed /\ call.aggr = "select")
  /\ [][(InPool /\ call.W <= 0 /\ Len(call.fails) >= 1) => call' = call]_vars
\* two jobs for a pool of no worker: the caller is in its first queue()
C39_Witness ==
  /\ InPool
  /\ call.W = 0 /\ Len(call.fails) = 2
  /\ call.m = "queue" /\ call.k = 0
  /\ ~ENABLED NextPool

(* ===================== the version change's claims ===================== *)

\* C40: the inequality of two versions read from the version file agrees with
\* the ordering: isRelease() finds HEAD's version different from its parent's
\* exactly when one of the two is before the other.
C40_InequalityAgreesWithOrdering ==
  ( /\ call.fn = "isRelease" /\ ~call.out.err
    /\ Len(Parents(call.r.hist, call.r.hist.head)) = 1 ) =>
    LET h == call.r.hist
        a == Text(at(h, h.head).v)
        b == Text(at(h, Parents(h, h.head)[1]).v)
    IN call.out.ok <=> (isBefore(a, b) \/ isBefore(b, a))

(* ====================== the walks' steps' claims ======================== *)

\* the walk is at a send on snd
Pushing == InWalk /\ call.t = "snd"
\* the walk returned, with or without an error
WalkReturned == InWalk /\ call.t = "ret"

\* C34: on every history each of the four walks (mainline, logMain,
\* logBranch, files) returns, and none of them is ever at a send on snd
\* after the goroutine of its passCommits closed rcv and returned, so that
\* no send blocks for ever
C34_WalksReturnWithoutLatePush ==
  /\ [](Pushing => ~call.closed)
  /\ <>WalkReturned

\* a walk of a merge commit's history that got nil, saw rcv closed and
\* returned without an error after having sent every commit it had to send
C34_Witness ==
  /\ WalkReturned
  /\ call.closed
  /\ ~call.err
  /\ call.kind = "files"
  /\ Cardinality(call.q.seen) >= 4
  /\ \E c \in DOMAIN call.h.parents : Len(call.h.parents[c]) = 2

====
